---- MODULE Spec2Model ----
(***************************************************************************)
(* The authentication context of the app (src/src/contexts/AuthContext.tsx) *)
(* and the auth service it calls (src/src/services/auth/auth.service.ts).   *)
(*                                                                         *)
(* State: the four React state cells of AuthProvider (user, role,          *)
(* isLoading, error), the secure key-value store, and the clock read by    *)
(* Date.now().  Every handler of the provider is one action that runs the  *)
(* handler from its call to the settlement of its promise; what the SDK    *)
(* and the store answer on the way (a token, null, a rejection) is drawn   *)
(* with \E.  `calls` keeps, in order, the calls the handler made (what the *)
(* jest mocks of the test-suite record) and `last` the handler, its input  *)
(* and how its promise settled; both are cleared (Settle) before the next  *)
(* event is handled.                                                       *)
(*                                                                         *)
(* The hooks and screens around the provider have their own state and      *)
(* their own specification each; the provider's actions leave that state   *)
(* alone, and theirs leave the provider's store, clock and call log alone. *)
(***************************************************************************)
EXTENDS Integers, Sequences, FiniteSets, TLC

VARIABLES user, role, isLoading, error, store, now, calls, last

\* useRequireAuth: what useRouter(), useSegments() and the caller give it,
\* the dependencies its effect last ran with, and the router.replace calls.
VARIABLES router, segments, redirectTo, effectDeps, replaceCalls, renderCount,
          renderCause

requireAuthVars ==
    <<router, segments, redirectTo, effectDeps, replaceCalls, renderCount,
      renderCause>>

\* The role hooks (useRole.ts): the arguments of useRole and useHasAnyRole and
\* what each hook returned at the last render.
VARIABLES requiredRole, roles, roleChecks

roleVars == <<requiredRole, roles, roleChecks>>

\* IntroWalkthrough (walkthrough.tsx): the state cell currentScreen, the slide
\* animations started and not yet completed, what the last render shows, and
\* the last thing that happened to the screen.
VARIABLES currentScreen, animations, view, lastEvent

walkthroughVars == <<currentScreen, animations, view, lastEvent>>

\* useThemeColor: the system colour scheme, the arguments of the hook and
\* the colour it returned at the last render.
VARIABLES colorScheme, props, colorName, themeColor

themeVars == <<colorScheme, props, colorName, themeColor>>

\* RootLayout (_layout.tsx): whether the module has been evaluated, what
\* useFonts() returns as loaded, what the component rendered last, the
\* dependencies its effect last ran with, the effect waiting to run, the
\* calls made on SplashScreen, and the number of renders.
VARIABLES moduleLoaded, fontsLoaded, layout, layoutDeps, pendingEffect,
          splashCalls, layoutRenders

layoutVars ==
    <<moduleLoaded, fontsLoaded, layout, layoutDeps, pendingEffect,
      splashCalls, layoutRenders>>

\* The Firebase configuration module (services/firebase/config.ts): what
\* Constants.expoConfig?.extra holds, the apps the Firebase SDK has registered,
\* the module's firebaseApp and auth after its last evaluation, the error that
\* evaluation threw, the SDK calls it made, and the number of evaluations.
VARIABLES extra, firebaseApps, firebaseApp, auth, configError, configCalls,
          configLoads

configVars ==
    <<extra, firebaseApps, firebaseApp, auth, configError, configCalls,
      configLoads>>

\* A component that calls useAuthContext() or useAuth(): whether an
\* AuthProvider is above it, the hook it called last, what the call gave, and
\* the number of calls.
VARIABLES provided, hook, hookResult, hookCalls

consumerVars == <<provided, hook, hookResult, hookCalls>>

\* The state outside AuthProvider.
componentVars ==
    <<requireAuthVars, roleVars, walkthroughVars, themeVars, layoutVars,
      configVars, consumerVars>>

vars == <<user, role, isLoading, error, store, now, calls, last, componentVars>>

\* JavaScript null / undefined, for the cells that hold strings.
NULL == "null"

----------------------------------------------------------------------------
(* Bounds of the model.                                                    *)

\* How many times the clock is advanced.
MaxTicks == 2

\* How many times useRequireAuth is rendered.
MaxRenders == 4

\* How many slide animations of the walkthrough can be running at once.
MaxAnimations == 3

\* How many times RootLayout is rendered.
MaxLayoutRenders == 5

\* The number of entries of extra that are '' at once.
MaxEmpty == 1

\* The number of evaluations of the Firebase configuration module.
MaxLoads == 2

\* The number of calls of useAuthContext / useAuth that are followed.
MaxHookCalls == 3

----------------------------------------------------------------------------
(* Values.                                                                 *)

\* enum UserRole
UserRole == {"user", "premium_user", "organizer", "admin"}

\* The signed-in users the SDK can deliver, named by their uid.
Users == {"uidA", "uidB"}

\* What the Firebase SDK rejects with: an error with a code, or one without.
FirebaseErrors == {"auth/network-request-failed", NULL}

\* createAuthError: the code of the AuthError made from a thrown error.
createAuthError(fbError) == IF fbError = NULL THEN "auth/unknown" ELSE fbError

\* Token storage keys.
TOKEN_KEY == "auth_token"
TOKEN_EXPIRY_KEY == "auth_token_expiry"

\* Lifetime written by storeToken: 3600 * 1000 ms.
TokenLifetimeMs == 3600000


----------------------------------------------------------------------------
(* ID tokens.  A token is a string, kept as the sequence of its pieces: a  *)
(* "." or a run of other characters.  Each run is named by what it is:     *)
(*   "H"     base64 of a JSON header                                       *)
(*   "Cu" "Ca"  base64 of a payload whose Hasura claims give the default   *)
(*           role user / admin                                             *)
(*   "Ca-"   the admin payload in base64url, holding "-" and "_";          *)
(*   "Ca+"   is the same run with "+" and "/" in their place               *)
(*   "Ch"    base64 of a payload whose Hasura claims hold no default role  *)
(*   "N"     base64 of a JSON payload without Hasura claims                *)
(*   "J"     base64 of text that is not JSON                               *)
(*   "X"     characters that are not base64                                *)
(*   "S"     a signature                                                   *)

HASURA_CLAIMS == "https://hasura.io/jwt/claims"
DEFAULT_ROLE == "x-hasura-default-role"

Jwt(payload) == <<"H", ".", payload, ".", "S">>

\* The tokens user.getIdToken can answer with in this model.
Tokens ==
    { Jwt("Cu"), Jwt("Ca-"),                 \* well formed, with a role
      Jwt("N"),                              \* well formed, without a role
      Jwt("X"),                              \* payload does not decode
      <<"X">>,                               \* 'invalid-token': no dot
      <<"H", ".", "Ca">> }                   \* two parts only

\* String.prototype.split(sep): the pieces between the separators.
RECURSIVE split(_, _)
split(str, sep) ==
    IF \A i \in 1..Len(str) : str[i] # sep
    THEN <<str>>
    ELSE LET i == CHOOSE k \in 1..Len(str) :
                     str[k] = sep /\ \A j \in 1..(k - 1) : str[j] # sep
         IN  <<SubSeq(str, 1, i - 1)>> \o split(SubSeq(str, i + 1, Len(str)), sep)

\* The payload handed to atob as it is.
base64UrlToBase64_asIs(payload) == payload

\* payload.replace(/-/g, '+').replace(/_/g, '/'): base64url to base64.
base64UrlToBase64(payload) ==
    [i \in 1..Len(payload) |-> IF payload[i] = "Ca-" THEN "Ca+" ELSE payload[i]]

\* What each base64 run decodes to: text that JSON.parse accepts (json) and
\* the claims object it then yields, as a function from its keys.
Decoded ==
    [r \in {"H", "Cu", "Ca", "Ca+", "Ch", "N", "J", "S"} |->
       CASE r = "Cu"  -> [json |-> TRUE,
                          value |-> (HASURA_CLAIMS :> (DEFAULT_ROLE :> "user"))]
         [] r \in {"Ca", "Ca+"}
                      -> [json |-> TRUE,
                          value |-> (HASURA_CLAIMS :> (DEFAULT_ROLE :> "admin"))]
         [] r = "Ch"  -> [json |-> TRUE,
                          value |-> (HASURA_CLAIMS :> ("x-hasura-user-id" :> "1"))]
         [] r = "N"   -> [json |-> TRUE, value |-> ("sub" :> ("id" :> "user-id"))]
         [] r = "H"   -> [json |-> TRUE, value |-> ("header" :> ("v" :> "value"))]
         [] r = "S"   -> [json |-> TRUE, value |-> ("signature" :> ("v" :> "value"))]
         [] OTHER     -> [json |-> FALSE, value |-> ("text" :> ("v" :> "text"))]]

\* atob(): throws on a character outside base64, else the decoded runs.
atobThrows(b64) == \E i \in 1..Len(b64) : b64[i] \notin DOMAIN Decoded

\* JSON.parse(atob(b64)): throws unless the text is one JSON document.
jsonParseThrows(b64) == Len(b64) # 1 \/ ~Decoded[b64[1]].json

\* function parseCustomClaims(idToken): the role, NULL for { } or an
\* undefined role.
parseCustomClaims(idToken) ==
    LET parts == split(idToken, ".")
    IN  IF Len(parts) < 2 \/ parts[2] = <<>>
        THEN NULL                                           \* if (!payload)
        ELSE LET b64 == base64UrlToBase64(parts[2])
             IN  IF atobThrows(b64) \/ jsonParseThrows(b64)
                 THEN NULL                                  \* catch
                 ELSE LET claims == Decoded[b64[1]].value
                      IN  IF HASURA_CLAIMS \in DOMAIN claims
                             /\ DEFAULT_ROLE \in DOMAIN claims[HASURA_CLAIMS]
                          THEN claims[HASURA_CLAIMS][DEFAULT_ROLE]
                          ELSE NULL

----------------------------------------------------------------------------
(* Numbers as strings: Number.prototype.toString and parseInt(s, 10).      *)

Digits == <<"0", "1", "2", "3", "4", "5", "6", "7", "8", "9">>

RECURSIVE toString(_)
toString(n) ==
    IF n < 10 THEN <<Digits[n + 1]>>
    ELSE Append(toString(n \div 10), Digits[(n % 10) + 1])

digitValue(c) == (CHOOSE d \in 1..10 : Digits[d] = c) - 1

isDigit(c) == \E d \in 1..10 : Digits[d] = c

NaN == -1

\* parseInt(s, 10): the number its leading digits spell, NaN without any.
RECURSIVE parseDigits(_, _)
parseDigits(s, acc) ==
    IF s = <<>> \/ ~isDigit(Head(s)) THEN acc
    ELSE parseDigits(Tail(s), 10 * acc + digitValue(Head(s)))

parseInt(s) == IF s = <<>> \/ ~isDigit(Head(s)) THEN NaN ELSE parseDigits(s, 0)


----------------------------------------------------------------------------
(* The provider's state while a handler runs: the React cells, the store   *)
(* and the calls made so far.                                              *)

Cur == [user |-> user, role |-> role, isLoading |-> isLoading,
        error |-> error, store |-> store, calls |-> <<>>]

Call(st, c) == [st EXCEPT !.calls = Append(@, c)]

bool(b) == IF b THEN "true" ELSE "false"

\* The useState setters.
setUser(st, u) == [Call(st, <<"setUser", u>>) EXCEPT !.user = u]
setRole(st, r) == [Call(st, <<"setRole", r>>) EXCEPT !.role = r]
setIsLoading(st, b) == [Call(st, <<"setIsLoading", bool(b)>>) EXCEPT !.isLoading = b]
setError(st, e) == [Call(st, <<"setError", e>>) EXCEPT !.error = e]

consoleError(st, msg) == Call(st, <<"console.error", msg>>)

\* isAuthenticated: !!user
isAuthenticated(u) == u # NULL

----------------------------------------------------------------------------
(* expo-secure-store: a map from the keys that are set to their strings.   *)
(* A call that rejects leaves the map as it was.                           *)

Keys == {TOKEN_KEY, TOKEN_EXPIRY_KEY}

\* Which call of a handler's store access rejects: none, or the one on a key.
Failing == {"none"} \cup Keys

setItemAsync(st, key, value, rejects) ==
    LET s1 == Call(st, <<"setItemAsync", key, value>>)
    IN  IF rejects THEN s1
        ELSE [s1 EXCEPT !.store =
                [k \in (DOMAIN st.store) \cup {key} |->
                    IF k = key THEN value ELSE st.store[k]]]

deleteItemAsync(st, key, rejects) ==
    LET s1 == Call(st, <<"deleteItemAsync", key>>)
    IN  IF rejects THEN s1
        ELSE [s1 EXCEPT !.store = [k \in (DOMAIN st.store) \ {key} |-> st.store[k]]]

\* async function storeToken(token)
storeToken(st, token, failing) ==
    LET s1 == setItemAsync(st, TOKEN_KEY, token, failing = TOKEN_KEY)
        expiryTime == now + TokenLifetimeMs
        s2 == setItemAsync(s1, TOKEN_EXPIRY_KEY, toString(expiryTime),
                           failing = TOKEN_EXPIRY_KEY)
    IN  IF failing = TOKEN_KEY THEN consoleError(s1, "Failed to store token:")
        ELSE IF failing = TOKEN_EXPIRY_KEY
             THEN consoleError(s2, "Failed to store token:")
             ELSE s2

\* isTokenExpired with `Date.now() > expiry`.
isTokenExpired_strictlyLater(st, failing) ==
    LET s1 == Call(st, <<"getItemAsync", TOKEN_EXPIRY_KEY>>)
    IN  IF failing = TOKEN_EXPIRY_KEY
        THEN [st |-> consoleError(s1, "Failed to check token expiry:"),
              expired |-> TRUE]
        ELSE IF TOKEN_EXPIRY_KEY \notin DOMAIN st.store
                \/ st.store[TOKEN_EXPIRY_KEY] = <<>>
             THEN [st |-> s1, expired |-> TRUE]
             ELSE LET expiry == parseInt(st.store[TOKEN_EXPIRY_KEY])
                  IN  [st |-> s1, expired |-> expiry # NaN /\ now > expiry]

\* async function isTokenExpired(): the state (its calls) and the answer.
isTokenExpired(st, failing) ==
    LET s1 == Call(st, <<"getItemAsync", TOKEN_EXPIRY_KEY>>)
    IN  IF failing = TOKEN_EXPIRY_KEY
        THEN [st |-> consoleError(s1, "Failed to check token expiry:"),
              expired |-> TRUE]
        ELSE IF TOKEN_EXPIRY_KEY \notin DOMAIN st.store
                \/ st.store[TOKEN_EXPIRY_KEY] = <<>>
             THEN [st |-> s1, expired |-> TRUE]               \* if (!expiryStr)
             ELSE LET expiry == parseInt(st.store[TOKEN_EXPIRY_KEY])
                  IN  [st |-> s1, expired |-> expiry # NaN /\ now >= expiry]

\* clearStoredTokens deleting the token and leaving its expiry.
clearStoredTokens_tokenOnly(st, failing) ==
    LET s1 == deleteItemAsync(st, TOKEN_KEY, failing = TOKEN_KEY)
    IN  IF failing = TOKEN_KEY THEN consoleError(s1, "Failed to clear stored tokens:")
        ELSE s1

\* async function clearStoredTokens()
clearStoredTokens(st, failing) ==
    LET s1 == deleteItemAsync(st, TOKEN_KEY, failing = TOKEN_KEY)
        s2 == deleteItemAsync(s1, TOKEN_EXPIRY_KEY, failing = TOKEN_EXPIRY_KEY)
    IN  IF failing = TOKEN_KEY THEN consoleError(s1, "Failed to clear stored tokens:")
        ELSE IF failing = TOKEN_EXPIRY_KEY
             THEN consoleError(s2, "Failed to clear stored tokens:")
             ELSE s2


----------------------------------------------------------------------------
(* The auth service (auth.service.ts) over the Firebase SDK.  What the SDK *)
(* answers is the caller's input: auth.currentUser being set or not, and   *)
(* each SDK promise resolving or rejecting with a Firebase error.          *)

\* What user.getIdToken and auth.currentUser can answer.
SdkTokenAnswers ==
    {[currentUser |-> FALSE, ok |-> TRUE, token |-> <<>>, code |-> NULL]}
    \cup {[currentUser |-> TRUE, ok |-> TRUE, token |-> t, code |-> NULL] : t \in Tokens}
    \cup {[currentUser |-> TRUE, ok |-> FALSE, token |-> <<>>, code |-> c] :
             c \in FirebaseErrors}

\* What an SDK sign-up / sign-in / sign-out promise can answer.
SdkAuthAnswers ==
    {[ok |-> TRUE, user |-> u, code |-> NULL] : u \in Users}
    \cup {[ok |-> FALSE, user |-> NULL, code |-> c] : c \in FirebaseErrors}

Resolved(u) == [settled |-> "resolved", user |-> u, error |-> NULL]
Rejected(e) == [settled |-> "rejected", user |-> NULL, error |-> e]

\* export async function getIdToken(forceRefresh = false)
getIdToken(forceRefresh, sdk) ==
    IF ~sdk.currentUser
    THEN [settled |-> "resolved", token |-> <<>>, isNull |-> TRUE, error |-> NULL]
    ELSE IF sdk.ok
         THEN [settled |-> "resolved", token |-> sdk.token, isNull |-> FALSE,
               error |-> NULL]
         ELSE [settled |-> "rejected", token |-> <<>>, isNull |-> TRUE,
               error |-> createAuthError(sdk.code)]

\* export async function signUpWithEmail(params): createUser, then
\* updateProfile when a display name is given; either may reject.
signUpWithEmail(displayName, sdk, sdkProfile) ==
    IF ~sdk.ok THEN Rejected(createAuthError(sdk.code))
    ELSE IF displayName /\ ~sdkProfile.ok
         THEN Rejected(createAuthError(sdkProfile.code))
         ELSE Resolved(sdk.user)

\* export async function signInWithEmail(params)
signInWithEmail(sdk) ==
    IF sdk.ok THEN Resolved(sdk.user) ELSE Rejected(createAuthError(sdk.code))

\* export async function signInWithGoogle(): not implemented, throws an
\* Error without a code.
signInWithGoogle == Rejected(createAuthError(NULL))

\* export async function signInWithApple(): not implemented, throws an
\* Error without a code.
signInWithApple == Rejected(createAuthError(NULL))

\* export async function signOut(), imported as authSignOut
authSignOut(sdk) ==
    IF sdk.ok THEN Resolved(NULL) ELSE Rejected(createAuthError(sdk.code))

----------------------------------------------------------------------------
(* The handlers of AuthProvider.                                           *)

\* `parsedRole || null`
orNull(r) == IF r = NULL \/ r = "" THEN NULL ELSE r

\* const updateUser = useCallback(async (newUser) => ...)
updateUser(st, newUser, sdk, failing) ==
    LET s1 == setUser(st, newUser)
    IN  IF newUser # NULL
        THEN LET s2 == Call(s1, <<"getIdToken", "false">>)
                 got == getIdToken(FALSE, sdk)
             IN  IF got.settled = "rejected"
                 THEN consoleError(s2, "Failed to get ID token:")
                 ELSE IF ~got.isNull /\ got.token # <<>>            \* if (token)
                      THEN setRole(storeToken(s2, got.token, failing),
                                   orNull(parseCustomClaims(got.token)))
                      ELSE s2
        ELSE clearStoredTokens(setRole(s1, NULL), failing)

\* refreshToken asking for the cached token: getIdToken().
refreshToken_notForced(st, sdk, failing) ==
    LET s1 == Call(st, <<"getIdToken", "false">>)
        got == getIdToken(FALSE, sdk)
    IN  IF got.settled = "rejected"
        THEN [st |-> consoleError(s1, "Failed to refresh token:"),
              settled |-> "rejected", error |-> got.error]
        ELSE IF ~got.isNull /\ got.token # <<>>
             THEN [st |-> setRole(storeToken(s1, got.token, failing),
                                  orNull(parseCustomClaims(got.token))),
                   settled |-> "resolved", error |-> NULL]
             ELSE [st |-> s1, settled |-> "resolved", error |-> NULL]

\* const refreshToken = useCallback(async () => ...): the state and how the
\* promise settles.
refreshToken(st, sdk, failing) ==
    LET s1 == Call(st, <<"getIdToken", "true">>)
        got == getIdToken(TRUE, sdk)
    IN  IF got.settled = "rejected"
        THEN [st |-> consoleError(s1, "Failed to refresh token:"),
              settled |-> "rejected", error |-> got.error]
        ELSE IF ~got.isNull /\ got.token # <<>>                     \* if (token)
             THEN [st |-> setRole(storeToken(s1, got.token, failing),
                                  orNull(parseCustomClaims(got.token))),
                   settled |-> "resolved", error |-> NULL]
             ELSE [st |-> s1, settled |-> "resolved", error |-> NULL]

\* const signUp = useCallback(async (params) => ...)
signUp(st, svc, sdk, failing) ==
    LET s1 == Call(setIsLoading(setError(st, NULL), TRUE), <<"signUpWithEmail">>)
    IN  IF svc.settled = "resolved"
        THEN [st |-> setIsLoading(updateUser(s1, svc.user, sdk, failing), FALSE),
              settled |-> "resolved", error |-> NULL]
        ELSE [st |-> setIsLoading(setError(s1, svc.error), FALSE),
              settled |-> "rejected", error |-> svc.error]

\* signIn without the `finally { setIsLoading(false) }`.
signIn_noFinally(st, svc, sdk, failing) ==
    LET s1 == Call(setIsLoading(setError(st, NULL), TRUE), <<"signInWithEmail">>)
    IN  IF svc.settled = "resolved"
        THEN [st |-> updateUser(s1, svc.user, sdk, failing),
              settled |-> "resolved", error |-> NULL]
        ELSE [st |-> setError(s1, svc.error),
              settled |-> "rejected", error |-> svc.error]

\* const signIn = useCallback(async (params) => ...)
signIn(st, svc, sdk, failing) ==
    LET s1 == Call(setIsLoading(setError(st, NULL), TRUE), <<"signInWithEmail">>)
    IN  IF svc.settled = "resolved"
        THEN [st |-> setIsLoading(updateUser(s1, svc.user, sdk, failing), FALSE),
              settled |-> "resolved", error |-> NULL]
        ELSE [st |-> setIsLoading(setError(s1, svc.error), FALSE),
              settled |-> "rejected", error |-> svc.error]

\* const handleSignInWithGoogle = useCallback(async () => ...)
handleSignInWithGoogle(st, svc, sdk, failing) ==
    LET s1 == Call(setIsLoading(setError(st, NULL), TRUE), <<"signInWithGoogle">>)
    IN  IF svc.settled = "resolved"
        THEN [st |-> setIsLoading(updateUser(s1, svc.user, sdk, failing), FALSE),
              settled |-> "resolved", error |-> NULL]
        ELSE [st |-> setIsLoading(setError(s1, svc.error), FALSE),
              settled |-> "rejected", error |-> svc.error]

\* handleSignInWithApple signing the user out when the service rejects.
handleSignInWithApple_clearsUser(st, svc, sdk, failing) ==
    LET s1 == Call(setIsLoading(setError(st, NULL), TRUE), <<"signInWithApple">>)
    IN  IF svc.settled = "resolved"
        THEN [st |-> setIsLoading(updateUser(s1, svc.user, sdk, failing), FALSE),
              settled |-> "resolved", error |-> NULL]
        ELSE [st |-> setIsLoading(setError(updateUser(s1, NULL, sdk, failing),
                                           svc.error), FALSE),
              settled |-> "rejected", error |-> svc.error]

\* const handleSignInWithApple = useCallback(async () => ...)
handleSignInWithApple(st, svc, sdk, failing) ==
    LET s1 == Call(setIsLoading(setError(st, NULL), TRUE), <<"signInWithApple">>)
    IN  IF svc.settled = "resolved"
        THEN [st |-> setIsLoading(updateUser(s1, svc.user, sdk, failing), FALSE),
              settled |-> "resolved", error |-> NULL]
        ELSE [st |-> setIsLoading(setError(s1, svc.error), FALSE),
              settled |-> "rejected", error |-> svc.error]

\* signOut clearing the user before the service's signOut has resolved.
signOut_clearsFirst(st, svc, failing) ==
    LET s1 == Call(updateUser(setError(st, NULL), NULL,
                              [currentUser |-> FALSE, ok |-> TRUE,
                               token |-> <<>>, code |-> NULL], failing),
                   <<"authSignOut">>)
    IN  IF svc.settled = "resolved"
        THEN [st |-> s1, settled |-> "resolved", error |-> NULL]
        ELSE [st |-> setError(s1, svc.error),
              settled |-> "rejected", error |-> svc.error]

\* const signOut = useCallback(async () => ...)
signOut(st, svc, failing) ==
    LET s1 == Call(setError(st, NULL), <<"authSignOut">>)
    IN  IF svc.settled = "resolved"
        THEN [st |-> updateUser(s1, NULL, [currentUser |-> FALSE, ok |-> TRUE,
                                           token |-> <<>>, code |-> NULL], failing),
              settled |-> "resolved", error |-> NULL]
        ELSE [st |-> setError(s1, svc.error),
              settled |-> "rejected", error |-> svc.error]

\* clearError that also resets the role.
clearError_clearsRole(st) == setRole(setError(st, NULL), NULL)

\* const clearError = useCallback(() => ...)
clearError(st) == setError(st, NULL)

\* The listener calling setIsLoading(false) before updateUser(newUser).
authStateListener_loadingFirst(st, newUser, sdk, failing) ==
    [st |-> updateUser(setIsLoading(st, FALSE), newUser, sdk, failing),
     settled |-> "resolved", error |-> NULL]

\* The callback given to onAuthStateChanged: await updateUser(newUser), then
\* setIsLoading(false).
authStateListener(st, newUser, sdk, failing) ==
    [st |-> setIsLoading(updateUser(st, newUser, sdk, failing), FALSE),
     settled |-> "resolved", error |-> NULL]

\* appStateListener without the try / catch around refreshToken().
appStateListener_noCatch(st, nextAppState, readFailing, sdk, failing) ==
    IF nextAppState = "active" /\ st.user # NULL
    THEN LET chk == isTokenExpired(st, readFailing)
         IN  IF chk.expired
             THEN refreshToken(chk.st, sdk, failing)
             ELSE [st |-> chk.st, settled |-> "resolved", error |-> NULL]
    ELSE [st |-> st, settled |-> "resolved", error |-> NULL]

\* The callback given to AppState.addEventListener('change', ...): the state
\* and how the promise settles.
appStateListener(st, nextAppState, readFailing, sdk, failing) ==
    IF nextAppState = "active" /\ st.user # NULL
    THEN LET chk == isTokenExpired(st, readFailing)
         IN  IF chk.expired
             THEN LET r == refreshToken(chk.st, sdk, failing)
                  IN  IF r.settled = "rejected"
                      THEN [st |-> consoleError(r.st,
                                      "Failed to refresh token on foreground:"),
                            settled |-> "resolved", error |-> NULL]       \* catch
                      ELSE [st |-> r.st, settled |-> "resolved", error |-> NULL]
             ELSE [st |-> chk.st, settled |-> "resolved", error |-> NULL]
    ELSE [st |-> st, settled |-> "resolved", error |-> NULL]


----------------------------------------------------------------------------
(* useRequireAuth (src/src/hooks/useRequireAuth.ts).  A string is kept as  *)
(* the sequence of its pieces, "/" or a route segment; an optional string  *)
(* as a record that says whether it is given.                              *)

\* An argument that is left out: undefined.
Undefined == [given |-> FALSE, value |-> <<>>]

\* An argument that is given.
Given(str) == [given |-> TRUE, value |-> str]

\* JavaScript truthiness of an optional string: given and not ''.
truthy(s) == s.given /\ s.value # <<>>

\* The objects useRouter() can return.
Routers == {"router1", "router2"}

\* The arrays useSegments() can return: an array object is its identity and
\* its items; two arrays with the same items are two objects.
SegmentArrays ==
    [id : {1, 2},
     items : {<<>>, <<"dashboard">>, <<"profile", "settings">>}]

\* What the caller can pass as redirectTo: nothing, '' or a path.
RedirectArgs == {Undefined, Given(<<>>), Given(<<"/", "custom-path">>)}

\* Array.prototype.join(sep)
RECURSIVE join(_, _)
join(items, sep) ==
    IF items = <<>> THEN <<>>
    ELSE IF Len(items) = 1 THEN <<items[1]>>
    ELSE <<items[1], sep>> \o join(Tail(items), sep)

\* The path of the route segments taken even when redirectTo is given.
currentPath_segmentsFirst(rTo, segs) ==
    IF segs.items # <<>> THEN <<"/">> \o join(segs.items, "/")
    ELSE IF truthy(rTo) THEN rTo.value ELSE <<"/">>

\* const currentPath = redirectTo || `/${segments.join('/')}`
currentPath(rTo, segs) ==
    IF truthy(rTo) THEN rTo.value ELSE <<"/">> \o join(segs.items, "/")

\* router.replace({ pathname: '/login', params: { returnTo: currentPath } })
LoginRedirect(path) == [pathname |-> "/login", params |-> [returnTo |-> path]]

\* The dependency array of the effect.
Deps(isAuth, loading, rtr, segs, rTo) == <<isAuth, loading, rtr, segs, rTo>>

\* An effect without a dependency array: it runs after every render.
EffectRuns_everyRender(prevDeps, deps) == TRUE

\* React runs an effect after the first render and after a render in which
\* a dependency is not the one of the previous run.
EffectRuns(prevDeps, deps) == prevDeps = <<>> \/ prevDeps # deps

\* The effect without the isLoading guard.
requireAuthEffect_whileLoading(log, isAuth, loading, segs, rTo) ==
    IF ~isAuth THEN Append(log, LoginRedirect(currentPath(rTo, segs))) ELSE log

\* The body of the effect of useRequireAuth: the router.replace calls after it.
requireAuthEffect(log, isAuth, loading, segs, rTo) ==
    IF loading THEN log
    ELSE IF ~isAuth THEN Append(log, LoginRedirect(currentPath(rTo, segs)))
         ELSE log

\* export function useRequireAuth(redirectTo?): one render of the hook and
\* the effect that follows it; the dependencies kept and the replace calls.
useRequireAuth(prevDeps, log, isAuth, loading, rtr, segs, rTo) ==
    LET deps == Deps(isAuth, loading, rtr, segs, rTo)
    IN  [effectDeps |-> deps,
         replaceCalls |-> IF EffectRuns(prevDeps, deps)
                          THEN requireAuthEffect(log, isAuth, loading, segs, rTo)
                          ELSE log]

\* Before the hook is mounted: on the route 'dashboard', no redirectTo.
RequireAuthInit ==
    /\ router = "router1"
    /\ segments = [id |-> 1, items |-> <<"dashboard">>]
    /\ redirectTo = Undefined
    /\ effectDeps = <<>>
    /\ replaceCalls = <<>>
    /\ renderCount = 0
    /\ renderCause = "none"

----------------------------------------------------------------------------
(* The role hooks (src/src/hooks/useRole.ts), each a function of the role  *)
(* useAuth() returns.                                                      *)

\* export function useRole(requiredRole): role === requiredRole
useRole(ctxRole, required) == ctxRole = required

\* Array.prototype.includes
includes(arr, x) == \E i \in 1..Len(arr) : arr[i] = x

\* useHasAnyRole without the test for a null role.
useHasAnyRole_anyMember(ctxRole, rs) == includes(rs, ctxRole)

\* export function useHasAnyRole(roles): role !== null && roles.includes(role)
useHasAnyRole(ctxRole, rs) == ctxRole # NULL /\ includes(rs, ctxRole)

\* export function useIsAdmin()
useIsAdmin(ctxRole) == useRole(ctxRole, "admin")

\* export function useIsOrganizer()
useIsOrganizer(ctxRole) == useRole(ctxRole, "organizer")

\* useIsPremium asking for the organizer role.
useIsPremium_asOrganizer(ctxRole) == useRole(ctxRole, "organizer")

\* export function useIsPremium()
useIsPremium(ctxRole) == useRole(ctxRole, "premium_user")

\* The role lists a caller can pass to useHasAnyRole; at run time a list can
\* hold null as well.
RoleLists ==
    { <<>>, <<"admin">>, <<"premium_user">>, <<"organizer", "admin">>,
      <<"user", "admin">>, <<"user", "premium_user", "organizer", "admin">>,
      <<NULL>>, <<NULL, "user">> }

\* One render of a component that uses all the role hooks: what each returns.
RoleHooks(ctxRole, required, rs) ==
    [useRole |-> useRole(ctxRole, required),
     useHasAnyRole |-> useHasAnyRole(ctxRole, rs),
     useIsAdmin |-> useIsAdmin(ctxRole),
     useIsOrganizer |-> useIsOrganizer(ctxRole),
     useIsPremium |-> useIsPremium(ctxRole),
     useIsUser |-> useRole(ctxRole, "user")]

\* The first render: no role yet, asking for the admin role and for no role.
RoleInit ==
    /\ requiredRole = "admin"
    /\ roles = <<>>
    /\ roleChecks = RoleHooks(NULL, "admin", <<>>)

----------------------------------------------------------------------------
(* IntroWalkthrough (src/src/app/walkthrough.tsx).  A press starts a slide *)
(* animation whose completion callback sets currentScreen to the value     *)
(* computed from the currentScreen of the render the press was made on.    *)
(* The callback ignores whether the animation finished or was stopped.     *)

\* const screens = [...]
screens ==
    << [id |-> 1, headline |-> "Compete with Friends. Stay Active.",
        subtext |-> "Join step, distance, or active minute challenges with your friends and groups.",
        buttonText |-> "Next"],
       [id |-> 2, headline |-> "We Track It for You.",
        subtext |-> "MilesAhead syncs your daily steps, distance, and active minutes from your phone - no input needed.",
        buttonText |-> "Next"],
       [id |-> 3, headline |-> "Chase the Leader. Or Be One.",
        subtext |-> "Get real-time updates and daily nudges when someone passes you in the rankings.",
        buttonText |-> "Let's Go"] >>

\* The indices of screens, counted from 0 as in the source.
ScreenIndices == 0..(Len(screens) - 1)

\* Animated.timing(translateX, { toValue: index * -screenWidth }).start(cb):
\* the animation is running; cb will call setCurrentScreen(index).
start(w, by, index) ==
    [w EXCEPT !.animations =
        Append(@, [by |-> by, from |-> w.currentScreen, index |-> index])]

\* handleNext starting the animation on every screen.
handleNext_everyScreen(w) == start(w, "next", w.currentScreen + 1)

\* const handleNext = () => ...
handleNext(w) ==
    IF w.currentScreen < Len(screens) - 1
    THEN start(w, "next", w.currentScreen + 1)
    ELSE w

\* goToScreen starting the animation for the current screen too.
goToScreen_always(w, index) == start(w, "dot", index)

\* const goToScreen = (index) => ...
goToScreen(w, index) ==
    IF index # w.currentScreen THEN start(w, "dot", index) ELSE w

\* What IntroWalkthrough renders for a current screen: the texts of
\* screens[currentScreen] and, for each progress dot, accessibilityState
\* selected.  Reading a field of screens[currentScreen] throws a TypeError
\* when the index is outside the array.
IntroWalkthroughView(cs) ==
    IF cs \in ScreenIndices
    THEN [headline |-> screens[cs + 1].headline,
          subtext |-> screens[cs + 1].subtext,
          buttonText |-> screens[cs + 1].buttonText,
          selected |-> [index \in ScreenIndices |-> index = cs]]
    ELSE [headline |-> "TypeError", subtext |-> "TypeError",
          buttonText |-> "TypeError",
          selected |-> [index \in ScreenIndices |-> FALSE]]

\* Nothing has happened to the screen yet.
NoEvent == [kind |-> "none", by |-> "none", from |-> 0, index |-> 0]

\* useState(0) and the first render.
WalkthroughInit ==
    /\ currentScreen = 0
    /\ animations = <<>>
    /\ view = IntroWalkthroughView(0)
    /\ lastEvent = NoEvent

----------------------------------------------------------------------------
(* useThemeColor (src/src/hooks/useThemeColor.ts) over useColorScheme and  *)
(* Colors.  A colour is a string, kept as the sequence of its pieces.      *)

\* export const Colors
Colors ==
    [light |-> [primary |-> <<"#00F5A0">>, accent |-> <<"#6E00FF">>,
                background |-> <<"#F5F5F5">>, text |-> <<"#121212">>,
                highlight |-> <<"#FF5E84">>, secondary |-> <<"#CFFF04">>,
                card |-> <<"#FFFFFF">>, border |-> <<"#E5E7EB">>],
     dark  |-> [primary |-> <<"#00F5A0">>, accent |-> <<"#6E00FF">>,
                background |-> <<"#121212">>, text |-> <<"#F5F5F5">>,
                highlight |-> <<"#FF5E84">>, secondary |-> <<"#CFFF04">>,
                card |-> <<"#232323">>, border |-> <<"#374151">>]]

\* type ThemeColorName = keyof typeof Colors.light
ThemeColorName == DOMAIN Colors.light

\* What react-native's useColorScheme() can return.
SystemSchemes == {"light", "dark", NULL, "undefined"}

\* a ?? b
nullish(a, b) == IF a \in {NULL, "undefined"} THEN b ELSE a

\* useColorScheme defaulting to 'dark'.
useColorScheme_darkDefault(system) == nullish(system, "dark")

\* export default function useColorScheme(): _useColorScheme() ?? 'light'
useColorScheme(system) == nullish(system, "light")

\* The colours a caller can pass for a scheme: none, '' or a colour.
PropColors(c) == {Undefined, Given(<<>>), Given(<<c>>)}

\* props: { light?: string; dark?: string }
ThemeProps == [light : PropColors("#FF0000"), dark : PropColors("#00FF00")]

\* export function useThemeColor(props, colorName)
useThemeColor(ps, name, system) ==
    LET scheme == useColorScheme(system)
    IN  IF truthy(ps[scheme]) THEN ps[scheme].value ELSE Colors[scheme][name]

\* The first render: light scheme, no props, the text colour.
ThemeInit ==
    /\ colorScheme = "light"
    /\ props = [light |-> Undefined, dark |-> Undefined]
    /\ colorName = "text"
    /\ themeColor = useThemeColor(props, colorName, colorScheme)

----------------------------------------------------------------------------
(* RootLayout (src/src/app/_layout.tsx).                                   *)

\* No effect is waiting to run.
NoEffect == [queued |-> FALSE, loaded |-> FALSE]

\* The effect calling SplashScreen.hideAsync() whatever loaded is.
layoutEffect_always(log, loaded) == Append(log, "hideAsync")

\* useEffect(() => { if (loaded) SplashScreen.hideAsync() }, [loaded]): the
\* SplashScreen calls after the effect ran with the loaded of its render.
layoutEffect(log, loaded) ==
    IF loaded THEN Append(log, "hideAsync") ELSE log

\* export default function RootLayout(): what it returns, the dependencies
\* of its effect, and the effect React runs after the render.
RootLayout(prevDeps, loaded) ==
    [layout |-> IF ~loaded THEN "null" ELSE "ThemedStack",
     layoutDeps |-> <<loaded>>,
     pendingEffect |-> IF EffectRuns(prevDeps, <<loaded>>)
                       THEN [queued |-> TRUE, loaded |-> loaded]
                       ELSE NoEffect]

\* Before the module is evaluated: nothing rendered, fonts not loaded.
LayoutInit ==
    /\ moduleLoaded = FALSE
    /\ fontsLoaded = FALSE
    /\ layout = "unmounted"
    /\ layoutDeps = <<>>
    /\ pendingEffect = NoEffect
    /\ splashCalls = <<>>
    /\ layoutRenders = 0

----------------------------------------------------------------------------
(* services/firebase/config.ts: the module that validates the Firebase     *)
(* configuration and initialises the app. A value of the configuration is  *)
(* an optional string: undefined, '' or a string with characters.          *)

\* The keys validateConfig requires, in the order of its array.
required ==
    <<"apiKey", "authDomain", "projectId", "storageBucket",
      "messagingSenderId", "appId">>

ConfigKeys == {required[i] : i \in 1..Len(required)}

\* The entry of Constants.expoConfig.extra each key is read from.
EnvVar ==
    [key \in ConfigKeys |->
        CASE key = "apiKey" -> "EXPO_PUBLIC_FIREBASE_API_KEY"
          [] key = "authDomain" -> "EXPO_PUBLIC_FIREBASE_AUTH_DOMAIN"
          [] key = "projectId" -> "EXPO_PUBLIC_FIREBASE_PROJECT_ID"
          [] key = "storageBucket" -> "EXPO_PUBLIC_FIREBASE_STORAGE_BUCKET"
          [] key = "messagingSenderId" -> "EXPO_PUBLIC_FIREBASE_MESSAGING_SENDER_ID"
          [] key = "appId" -> "EXPO_PUBLIC_FIREBASE_APP_ID"]

EnvVars == {EnvVar[key] : key \in ConfigKeys}

\* What an entry of extra can be. With expoConfig or extra itself missing,
\* the optional chaining makes every entry undefined.
ExtraValues == {Undefined, Given(<<>>), Given(<<"value">>)}

\* The entries of ex that are ''.
EmptyEntries(ex) == {v \in EnvVars : ex[v] = Given(<<>>)}

\* The contents of extra that are tried: any entries undefined, and up to
\* MaxEmpty of them ''.
Extras ==
    {ex \in [EnvVars -> ExtraValues] : Cardinality(EmptyEntries(ex)) <= MaxEmpty}

\* const firebaseConfig = { apiKey: Constants.expoConfig?.extra?.EXPO_..., ... }
firebaseConfig(ex) == [key \in ConfigKeys |-> ex[EnvVar[key]]]

\* required.filter((key) => !firebaseConfig[key]) keeping undefined values
\* only.
RECURSIVE missing_undefinedOnly(_, _)
missing_undefinedOnly(keys, config) ==
    IF keys = <<>> THEN <<>>
    ELSE (IF ~config[Head(keys)].given THEN <<Head(keys)>> ELSE <<>>)
         \o missing_undefinedOnly(Tail(keys), config)

\* required.filter((key) => !firebaseConfig[key]): the keys whose value is
\* falsy, in the order of `required`.
RECURSIVE missing(_, _)
missing(keys, config) ==
    IF keys = <<>> THEN <<>>
    ELSE (IF ~truthy(config[Head(keys)]) THEN <<Head(keys)>> ELSE <<>>)
         \o missing(Tail(keys), config)

\* validateConfig returned without throwing.
NoConfigError == [threw |-> FALSE, message |-> <<>>]

\* validateConfig: throws when a key is missing; the message is the pieces
\* of its template string.
validateConfig(config) ==
    LET m == missing(required, config)
    IN  IF Len(m) > 0
        THEN [threw |-> TRUE,
              message |-> <<"Missing required Firebase configuration: ">>
                          \o join(m, ", ")
                          \o <<"\n", "Please ensure all EXPO_PUBLIC_FIREBASE_* environment variables are set in app.config.js">>]
        ELSE NoConfigError

\* The options of an app that some other code initialised.
OtherOptions == [key \in ConfigKeys |-> Given(<<"other">>)]

\* initializeApp(options): the default app, made with these options.
initializeApp(options) == [name |-> "[DEFAULT]", options |-> options]

\* getAuth(app): the Auth instance of the app.
getAuth(app) == [app |-> app]

\* The evaluation of the module with `ex` as extra and `apps` registered:
\* the error thrown, the apps registered afterwards, the module's firebaseApp
\* and auth (none after a throw), and the SDK calls made.
configModule(ex, apps) ==
    LET config == firebaseConfig(ex)
        thrown == validateConfig(config)
    IN  IF thrown.threw
        THEN [error |-> thrown, apps |-> apps, firebaseApp |-> <<>>,
              auth |-> <<>>, calls |-> <<>>]
        ELSE IF Len(apps) = 0
        THEN LET app == initializeApp(config)
             IN  [error |-> NoConfigError, apps |-> <<app>>,
                  firebaseApp |-> <<app>>, auth |-> <<getAuth(app)>>,
                  calls |-> <<"getApps", "initializeApp", "getAuth">>]
        ELSE [error |-> NoConfigError, apps |-> apps,
              firebaseApp |-> <<apps[1]>>, auth |-> <<getAuth(apps[1])>>,
              calls |-> <<"getApps", "getApps", "getAuth">>]

\* Before the module is evaluated: nothing in extra, no app registered.
ConfigInit ==
    /\ extra = [v \in EnvVars |-> Undefined]
    /\ firebaseApps = <<>>
    /\ firebaseApp = <<>>
    /\ auth = <<>>
    /\ configError = NoConfigError
    /\ configCalls = <<>>
    /\ configLoads = 0

----------------------------------------------------------------------------
(* useAuthContext (AuthContext.tsx) and useAuth (hooks/useAuth.ts).        *)

\* useContext(AuthContext) outside every AuthProvider: the default value of
\* createContext, undefined.
UndefinedContext == [defined |-> FALSE]

\* The value AuthProvider gives its context: the state and isAuthenticated.
\* (The handlers it also holds are functions, and are not part of the state.)
AuthContextValue(u, r, loading, e) ==
    [defined |-> TRUE,
     value |-> [user |-> u, role |-> r, isLoading |-> loading, error |-> e,
                isAuthenticated |-> isAuthenticated(u)]]

\* useContext(AuthContext) in a component with or without a provider above.
useContext(isProvided, u, r, loading, e) ==
    IF isProvided THEN AuthContextValue(u, r, loading, e) ELSE UndefinedContext

\* useAuthContext returning the context whatever it is.
useAuthContext_noCheck(context) ==
    [threw |-> FALSE, message |-> "", context |-> context]

\* useAuthContext: throws when the context is undefined, returns it otherwise.
useAuthContext(context) ==
    IF ~context.defined
    THEN [threw |-> TRUE,
          message |-> "useAuthContext must be used within an AuthProvider",
          context |-> UndefinedContext]
    ELSE [threw |-> FALSE, message |-> "", context |-> context]

\* useAuth(): return useAuthContext().
useAuth(context) == useAuthContext(context)

\* The hooks a component can call.
Hooks == {"useAuthContext", "useAuth"}

\* What the call of hook h gives.
callHook(h, context) ==
    IF h = "useAuth" THEN useAuth(context) ELSE useAuthContext(context)

\* No hook has been called.
NoHookResult == [threw |-> FALSE, message |-> "", context |-> UndefinedContext]

\* Before the component renders: it is outside a provider and has called
\* nothing.
ConsumerInit ==
    /\ provided = FALSE
    /\ hook = "useAuthContext"
    /\ hookResult = NoHookResult
    /\ hookCalls = 0

----------------------------------------------------------------------------
(* The state machine.                                                      *)

\* The clock advances by half a token lifetime at a time.
TickMs == TokenLifetimeMs \div 2

\* What updateProfile can answer during sign-up.
SdkProfileAnswers ==
    {[ok |-> TRUE, user |-> NULL, code |-> NULL],
     [ok |-> FALSE, user |-> NULL, code |-> "auth/network-request-failed"]}

\* Secure storage outlives the app: empty on a first launch, or what an
\* earlier run stored half a token lifetime before this launch.
InitialStores ==
    { <<>>,
      (TOKEN_KEY :> Jwt("Cu")) @@ (TOKEN_EXPIRY_KEY :> toString(TokenLifetimeMs + TickMs)) }

Called(cs, name) == \E i \in 1..Len(cs) : cs[i][1] = name

NoSdk == [currentUser |-> FALSE, ok |-> TRUE, token |-> <<>>, code |-> NULL]

\* A handler's token request and store writes: what getIdToken answers and
\* which setItemAsync rejects (none can when no token is answered).
TokenRuns ==
    {x \in [sdk : SdkTokenAnswers, failing : Failing] :
        x.failing = "none" \/ (x.sdk.currentUser /\ x.sdk.ok)}

\* The answer of getIdToken the handler saw, "none" when it asked for none.
Got(cs, forceRefresh, sdk) ==
    IF Called(cs, "getIdToken") THEN getIdToken(forceRefresh, sdk)
    ELSE [settled |-> "none", token |-> <<>>, isNull |-> TRUE, error |-> NULL]

\* The handler that ran last: its name, its argument, what the service call
\* and getIdToken answered it, and how its own promise settled.
Ran(op, arg, svc, got, r) ==
    [op |-> op, arg |-> arg, svc |-> svc, got |-> got,
     settled |-> r.settled, error |-> r.error]

\* No service call.
NoSvc == [settled |-> "none", user |-> NULL, error |-> NULL]

Idle == [op |-> "idle", arg |-> NULL, svc |-> NoSvc, got |-> Got(<<>>, FALSE, NoSdk),
         settled |-> "resolved", error |-> NULL]

\* The handler ended in st: the cells, the store and the calls it leaves.
Commit(st, l) ==
    /\ user' = st.user
    /\ role' = st.role
    /\ isLoading' = st.isLoading
    /\ error' = st.error
    /\ store' = st.store
    /\ calls' = st.calls
    /\ last' = l
    /\ UNCHANGED <<now, componentVars>>

Init ==
    /\ user = NULL
    /\ role = NULL
    /\ isLoading = TRUE
    /\ error = NULL
    /\ store \in InitialStores
    /\ now = TokenLifetimeMs
    /\ calls = <<>>
    /\ last = Idle
    /\ RequireAuthInit
    /\ RoleInit
    /\ WalkthroughInit
    /\ ThemeInit
    /\ LayoutInit
    /\ ConfigInit
    /\ ConsumerInit

\* The handler's promise has settled; the next event can be handled.
Settle ==
    /\ last # Idle
    /\ last' = Idle
    /\ calls' = <<>>
    /\ UNCHANGED <<user, role, isLoading, error, store, now, componentVars>>

\* Date.now() moves on.
Tick ==
    /\ last = Idle
    /\ now < TokenLifetimeMs + MaxTicks * TickMs
    /\ now' = now + TickMs
    /\ UNCHANGED <<user, role, isLoading, error, store, calls, last, componentVars>>

\* Firebase notifies the auth-state listener.
AuthStateChanged ==
    /\ last = Idle
    /\ \/ \E failing \in Failing :
            LET r == authStateListener(Cur, NULL, NoSdk, failing)
            IN  Commit(r.st, Ran("onAuthStateChanged", NULL, NoSvc,
                                 Got(r.st.calls, FALSE, NoSdk), r))
       \/ \E newUser \in Users, x \in TokenRuns :
            LET r == authStateListener(Cur, newUser, x.sdk, x.failing)
            IN  Commit(r.st, Ran("onAuthStateChanged", newUser, NoSvc,
                                 Got(r.st.calls, FALSE, x.sdk), r))

\* The app state changes.
AppStateChanged ==
    /\ last = Idle
    /\ \/ \E nextAppState \in {"background", "inactive"} :
            LET r == appStateListener(Cur, nextAppState, "none", NoSdk, "none")
            IN  Commit(r.st, Ran("appStateChange", nextAppState, NoSvc,
                                 Got(r.st.calls, TRUE, NoSdk), r))
       \/ \E readFailing \in {"none", TOKEN_EXPIRY_KEY}, x \in TokenRuns :
            LET r == appStateListener(Cur, "active", readFailing, x.sdk, x.failing)
            IN  /\ Called(r.st.calls, "getIdToken")
                   \/ (x.sdk = NoSdk /\ x.failing = "none")
                /\ Called(r.st.calls, "getItemAsync") \/ readFailing = "none"
                /\ Commit(r.st, Ran("appStateChange", "active", NoSvc,
                                    Got(r.st.calls, TRUE, x.sdk), r))

SignUp ==
    /\ last = Idle
    /\ \E svc \in {signUpWithEmail(d, a, p) :
                     d \in BOOLEAN, a \in SdkAuthAnswers, p \in SdkProfileAnswers},
          x \in TokenRuns :
            LET r == signUp(Cur, svc, x.sdk, x.failing)
            IN  /\ svc.settled = "resolved" \/ (x.sdk = NoSdk /\ x.failing = "none")
                /\ Commit(r.st, Ran("signUp", NULL, svc,
                                    Got(r.st.calls, FALSE, x.sdk), r))

SignIn ==
    /\ last = Idle
    /\ \E svc \in {signInWithEmail(a) : a \in SdkAuthAnswers}, x \in TokenRuns :
            LET r == signIn(Cur, svc, x.sdk, x.failing)
            IN  /\ svc.settled = "resolved" \/ (x.sdk = NoSdk /\ x.failing = "none")
                /\ Commit(r.st, Ran("signIn", NULL, svc,
                                    Got(r.st.calls, FALSE, x.sdk), r))

SignInWithGoogle ==
    /\ last = Idle
    /\ \E svc \in {signInWithGoogle}, x \in TokenRuns :
            LET r == handleSignInWithGoogle(Cur, svc, x.sdk, x.failing)
            IN  /\ svc.settled = "resolved" \/ (x.sdk = NoSdk /\ x.failing = "none")
                /\ Commit(r.st, Ran("signInWithGoogle", NULL, svc,
                                    Got(r.st.calls, FALSE, x.sdk), r))

SignInWithApple ==
    /\ last = Idle
    /\ \E svc \in {signInWithApple}, x \in TokenRuns :
            LET r == handleSignInWithApple(Cur, svc, x.sdk, x.failing)
            IN  /\ svc.settled = "resolved" \/ (x.sdk = NoSdk /\ x.failing = "none")
                /\ Commit(r.st, Ran("signInWithApple", NULL, svc,
                                    Got(r.st.calls, FALSE, x.sdk), r))

SignOut ==
    /\ last = Idle
    /\ \E svc \in {authSignOut(a) : a \in SdkAuthAnswers}, failing \in Failing :
            LET r == signOut(Cur, svc, failing)
            IN  /\ svc.settled = "resolved" \/ failing = "none"
                /\ Commit(r.st, Ran("signOut", NULL, svc,
                                    Got(r.st.calls, FALSE, NoSdk), r))

RefreshToken ==
    /\ last = Idle
    /\ \E x \in TokenRuns :
            LET r == refreshToken(Cur, x.sdk, x.failing)
            IN  Commit(r.st, Ran("refreshToken", NULL, NoSvc,
                                 Got(r.st.calls, TRUE, x.sdk), r))

ClearError ==
    /\ last = Idle
    /\ LET st == clearError(Cur)
       IN  Commit(st, Ran("clearError", NULL, NoSvc, Got(st.calls, FALSE, NoSdk),
                          [settled |-> "resolved", error |-> NULL]))

Next ==
    \/ Settle
    \/ Tick
    \/ AuthStateChanged
    \/ AppStateChanged
    \/ SignUp
    \/ SignIn
    \/ SignInWithGoogle
    \/ SignInWithApple
    \/ SignOut
    \/ RefreshToken
    \/ ClearError

Spec == Init /\ [][Next]_vars

----------------------------------------------------------------------------
(* The claims.  A claim about what a handler does is a property of the     *)
(* step that runs it: from the state before the event (last = Idle) to the *)
(* state in which the handler's promise has settled.                       *)

\* The step runs handler op.
Runs(op) == last = Idle /\ last'.op = op

HasCall(cs, c) == \E i \in 1..Len(cs) : cs[i] = c

ForcedRefresh(cs) == HasCall(cs, <<"getIdToken", "true">>)

\* The number the stored expiry spells, read digit by digit.
StoredExpiry == parseDigits(store[TOKEN_EXPIRY_KEY], 0)

ExpiryStored == TOKEN_EXPIRY_KEY \in DOMAIN store

\* The app becomes active while a user is signed in.
Foreground == Runs("appStateChange") /\ last'.arg = "active" /\ user # NULL

\* C1, as stated: when the app state changes to 'active' while a user is
\* signed in, a stored expiry that has passed always leads to
\* getIdToken(true), and a stored expiry that lies in the future never leads
\* to any getIdToken call.
C1_AsStated ==
    [][Foreground =>
         /\ (ExpiryStored /\ now >= StoredExpiry) => ForcedRefresh(calls')
         /\ (ExpiryStored /\ now < StoredExpiry) => ~Called(calls', "getIdToken")
      ]_vars

\* C1, amended: when the app state changes to 'active' while a user is
\* signed in, a stored expiry that has passed (or a missing one) always leads
\* to getIdToken(true); a stored expiry that lies in the future leads to no
\* getIdToken call unless reading it from secure storage rejects, and then
\* the token counts as expired and getIdToken(true) is called.
C1_ForegroundRefresh ==
    [][Foreground =>
         LET readRejected ==
                 HasCall(calls', <<"console.error", "Failed to check token expiry:">>)
         IN  /\ (~ExpiryStored \/ now >= StoredExpiry) => ForcedRefresh(calls')
             /\ (ExpiryStored /\ now < StoredExpiry /\ ~readRejected)
                    => ~Called(calls', "getIdToken")
             /\ readRejected => ForcedRefresh(calls')
             /\ ~HasCall(calls', <<"getIdToken", "false">>)
      ]_vars

\* C1, witness: the foreground handler ran for a signed-in user, read the
\* stored expiry without a rejection and forced a refresh.
C1_Witness ==
    /\ last.op = "appStateChange" /\ last.arg = "active" /\ user # NULL
    /\ HasCall(calls, <<"getItemAsync", TOKEN_EXPIRY_KEY>>)
    /\ ~HasCall(calls, <<"console.error", "Failed to check token expiry:">>)
    /\ ForcedRefresh(calls)

\* The default-role claim each token of the model carries in its payload,
\* NULL for none.
RoleClaimOf(t) ==
    CASE t = Jwt("Cu") -> "user"
      [] t = Jwt("Ca-") -> "admin"
      [] t = <<"H", ".", "Ca">> -> "admin"
      [] OTHER -> NULL

\* The handler asked for the ID token and got one (not null, no rejection).
GotToken(l) == l.got.settled = "resolved" /\ ~l.got.isNull

Holds(st, key, value) == key \in DOMAIN st /\ st[key] = value

\* The auth-state listener is given a user, and getIdToken answers a token
\* that carries a default-role claim.
DeliveredWithRole ==
    /\ Runs("onAuthStateChanged") /\ last'.arg \in Users
    /\ GotToken(last') /\ RoleClaimOf(last'.got.token) # NULL

WriteRejected(cs) == HasCall(cs, <<"console.error", "Failed to store token:">>)

\* C2, as stated: when the auth-state listener delivers a user U and
\* getIdToken returns a token T carrying the default-role claim R, then after
\* the update user = U, isAuthenticated, role = R, and secure storage holds T
\* under 'auth_token' and a value under 'auth_token_expiry'.
C2_AsStated ==
    [][DeliveredWithRole =>
         /\ user' = last'.arg /\ isAuthenticated(user')
         /\ role' = RoleClaimOf(last'.got.token)
         /\ Holds(store', TOKEN_KEY, last'.got.token)
         /\ TOKEN_EXPIRY_KEY \in DOMAIN store'
      ]_vars

\* C2, amended: when the auth-state listener delivers a user U and
\* getIdToken returns a token T carrying the default-role claim R, then after
\* the update user = U, isAuthenticated, role = R, and, unless a
\* SecureStore.setItemAsync call rejected (which storeToken logs and
\* swallows), secure storage holds T under 'auth_token' and a value under
\* 'auth_token_expiry'.
C2_UserDelivered ==
    [][DeliveredWithRole =>
         /\ user' = last'.arg /\ isAuthenticated(user')
         /\ role' = RoleClaimOf(last'.got.token)
         /\ ~WriteRejected(calls') =>
                /\ Holds(store', TOKEN_KEY, last'.got.token)
                /\ TOKEN_EXPIRY_KEY \in DOMAIN store'
      ]_vars

\* C2, witness: the listener was given a user and a base64url token with the
\* admin role; the role is set and the token stored.
C2_Witness ==
    /\ last.op = "onAuthStateChanged" /\ last.arg \in Users /\ user = last.arg
    /\ GotToken(last) /\ last.got.token = Jwt("Ca-")
    /\ role = "admin"
    /\ Holds(store, TOKEN_KEY, Jwt("Ca-")) /\ TOKEN_EXPIRY_KEY \in DOMAIN store

\* The user becomes null: the listener is given null, or the service's
\* signOut resolves.
BecomesNull ==
    \/ Runs("onAuthStateChanged") /\ last'.arg = NULL
    \/ Runs("signOut") /\ last'.svc.settled = "resolved"

DeleteRejected(cs) ==
    HasCall(cs, <<"console.error", "Failed to clear stored tokens:">>)

\* C3, as stated: whenever the user becomes null (the listener delivers null
\* or signOut succeeds), after the update user is null, isAuthenticated is
\* false, role is null and both keys are deleted from secure storage.
C3_AsStated ==
    [][BecomesNull =>
         /\ user' = NULL /\ ~isAuthenticated(user') /\ role' = NULL
         /\ TOKEN_KEY \notin DOMAIN store' /\ TOKEN_EXPIRY_KEY \notin DOMAIN store'
      ]_vars

\* C3, amended: whenever the user becomes null (the listener delivers null
\* or signOut succeeds), after the update user is null, isAuthenticated is
\* false, role is null, and, unless a SecureStore.deleteItemAsync call
\* rejected (which clearStoredTokens logs and swallows, skipping the deletion
\* that would follow), both keys are deleted from secure storage.
C3_UserCleared ==
    [][BecomesNull =>
         /\ user' = NULL /\ ~isAuthenticated(user') /\ role' = NULL
         /\ ~DeleteRejected(calls') =>
                /\ TOKEN_KEY \notin DOMAIN store'
                /\ TOKEN_EXPIRY_KEY \notin DOMAIN store'
      ]_vars

\* C3, witness: signOut resolved; the cells are null and the store is empty
\* after both deletions.
C3_Witness ==
    /\ last.op = "signOut" /\ last.svc.settled = "resolved"
    /\ user = NULL /\ role = NULL /\ store = <<>>
    /\ HasCall(calls, <<"deleteItemAsync", TOKEN_KEY>>)
    /\ HasCall(calls, <<"deleteItemAsync", TOKEN_EXPIRY_KEY>>)

\* The four sign-up / sign-in operations of the context.
SignOps == {"signUp", "signIn", "signInWithGoogle", "signInWithApple"}

RunsSignOp == last = Idle /\ last'.op \in SignOps

\* C4: for each of signUp, signIn, signInWithGoogle and signInWithApple,
\* when the service call resolves with a user U then, once the operation has
\* completed, user = U, isAuthenticated = true, isLoading = false and
\* error = null.
C4_SignInSucceeds ==
    [][(RunsSignOp /\ last'.svc.settled = "resolved") =>
         /\ user' = last'.svc.user /\ user' \in Users /\ isAuthenticated(user')
         /\ isLoading' = FALSE
         /\ error' = NULL
      ]_vars

\* C4, witness: signIn resolved with the user uidB; that user is shown,
\* loading was switched on and is over, and no error is set.
C4_Witness ==
    /\ last.op = "signIn" /\ last.svc.settled = "resolved"
    /\ user = last.svc.user /\ user = "uidB"
    /\ HasCall(calls, <<"setIsLoading", "true">>)
    /\ ~isLoading /\ error = NULL

\* C5: for each of signUp, signIn, signInWithGoogle and signInWithApple,
\* when the service call rejects with E the operation rejects with E, the
\* context's error becomes E, isLoading ends false, and user, role and the
\* stored tokens are what they were before the call.
C5_SignInFails ==
    [][(RunsSignOp /\ last'.svc.settled = "rejected") =>
         /\ last'.settled = "rejected" /\ last'.error = last'.svc.error
         /\ error' = last'.svc.error /\ error' # NULL
         /\ isLoading' = FALSE
         /\ user' = user /\ role' = role /\ store' = store
      ]_vars

\* C5, witness: signInWithApple rejected while a user with a role and a
\* stored token was signed in.
C5_Witness ==
    /\ last.op = "signInWithApple" /\ last.settled = "rejected"
    /\ error = "auth/unknown" /\ ~isLoading
    /\ user # NULL /\ role # NULL /\ TOKEN_KEY \in DOMAIN store

\* C6: when the service's signOut rejects with E, the context's signOut
\* rejects with E, error becomes E, and user, role, isAuthenticated and the
\* stored tokens are unchanged.
C6_SignOutFails ==
    [][(Runs("signOut") /\ last'.svc.settled = "rejected") =>
         /\ last'.settled = "rejected" /\ last'.error = last'.svc.error
         /\ error' = last'.svc.error /\ error' # NULL
         /\ user' = user /\ role' = role /\ store' = store
         /\ isAuthenticated(user') = isAuthenticated(user)
      ]_vars

\* C6, witness: signOut rejected while a user with a role and a stored token
\* was signed in.
C6_Witness ==
    /\ last.op = "signOut" /\ last.settled = "rejected" /\ error = last.error
    /\ user # NULL /\ role # NULL /\ TOKEN_KEY \in DOMAIN store

\* refreshToken() is called on the context and its promise resolves.
RefreshResolves == Runs("refreshToken") /\ last'.settled = "resolved"

\* C7, as stated: a successful refreshToken call requests the token with
\* forceRefresh = true, writes the new token and a new expiry to secure
\* storage, and sets role to the role claim of the new token; it does not
\* change user, isLoading or error.
C7_AsStated ==
    [][RefreshResolves =>
         /\ ForcedRefresh(calls') /\ ~HasCall(calls', <<"getIdToken", "false">>)
         /\ GotToken(last')
         /\ Holds(store', TOKEN_KEY, last'.got.token)
         /\ Holds(store', TOKEN_EXPIRY_KEY, toString(now + TokenLifetimeMs))
         /\ role' = RoleClaimOf(last'.got.token)
         /\ user' = user /\ isLoading' = isLoading /\ error' = error
      ]_vars

\* C7, amended: a refreshToken call that resolves has requested the token
\* with forceRefresh = true and changes neither user, isLoading nor error.
\* When getIdToken answered a token, role is the role claim of that token
\* (null when it has none) and, unless a SecureStore.setItemAsync call
\* rejected (logged and swallowed), the token and a new expiry, one hour
\* from now, are in secure storage.  When getIdToken answered null (no
\* current user), role and the storage are unchanged.
C7_RefreshResolves ==
    [][RefreshResolves =>
         /\ ForcedRefresh(calls') /\ ~HasCall(calls', <<"getIdToken", "false">>)
         /\ user' = user /\ isLoading' = isLoading /\ error' = error
         /\ GotToken(last') =>
                /\ role' = RoleClaimOf(last'.got.token)
                /\ ~WriteRejected(calls') =>
                       /\ Holds(store', TOKEN_KEY, last'.got.token)
                       /\ Holds(store', TOKEN_EXPIRY_KEY,
                                toString(now + TokenLifetimeMs))
         /\ ~GotToken(last') => (role' = role /\ store' = store)
      ]_vars

\* C7, witness: with the role user, refreshToken resolved with an admin
\* token: the role is admin and the token is stored with its expiry.
C7_Witness ==
    /\ last.op = "refreshToken" /\ last.settled = "resolved"
    /\ GotToken(last) /\ last.got.token = Jwt("Ca-")
    /\ role = "admin" /\ user # NULL
    /\ Holds(store, TOKEN_KEY, Jwt("Ca-"))
    /\ Holds(store, TOKEN_EXPIRY_KEY, toString(now + TokenLifetimeMs))

\* getIdToken(true) rejects during a refresh.
RefreshRejected(l) == l.got.settled = "rejected"

\* C8: when getIdToken(true) rejects during refreshToken, refreshToken
\* rejects with the same error and user, role, error, isLoading and the
\* stored token and expiry are unchanged; when the failing refresh was
\* started by the foreground handler, the handler resolves: the error is
\* swallowed.
C8_RefreshFails ==
    [][/\ (Runs("refreshToken") /\ RefreshRejected(last')) =>
            /\ last'.settled = "rejected" /\ last'.error = last'.got.error
            /\ last'.error # NULL
            /\ user' = user /\ role' = role /\ error' = error
            /\ isLoading' = isLoading /\ store' = store
       /\ (Runs("appStateChange") /\ RefreshRejected(last')) =>
            /\ last'.settled = "resolved" /\ last'.error = NULL
            /\ user' = user /\ role' = role /\ error' = error
            /\ isLoading' = isLoading /\ store' = store
      ]_vars

\* C8, witness: the foreground handler's refresh was rejected for a signed-in
\* user with a stored token, and the handler resolved.
C8_Witness ==
    /\ last.op = "appStateChange" /\ RefreshRejected(last)
    /\ last.settled = "resolved"
    /\ HasCall(calls, <<"console.error", "Failed to refresh token on foreground:">>)
    /\ user # NULL /\ TOKEN_KEY \in DOMAIN store

\* A well-formed three-part JWT: header, payload and signature, the payload
\* being base64url of one JSON document.
WellFormedJwt(t) == t \in {Jwt("Cu"), Jwt("Ca-"), Jwt("N")}

\* The auth-state listener is given a user, and getIdToken answers null, a
\* token that is not a well-formed three-part JWT, or one without the
\* default-role claim.
DeliveredWithoutRole ==
    /\ Runs("onAuthStateChanged") /\ last'.arg \in Users
    /\ last'.got.settled = "resolved"
    /\ \/ last'.got.isNull
       \/ ~WellFormedJwt(last'.got.token)
       \/ RoleClaimOf(last'.got.token) = NULL

\* C9, as stated: whenever a non-null user is delivered and the ID token is
\* missing (getIdToken returns null), is not a well-formed three-part JWT, or
\* has no Hasura default-role claim, then after the update completes the user
\* is set, the role is null, and no exception escapes.
C9_AsStated ==
    [][DeliveredWithoutRole =>
         /\ user' = last'.arg
         /\ role' = NULL
         /\ last'.settled = "resolved"
      ]_vars

\* The last of the calls a handler made.
LastCall(cs) == cs[Len(cs)]

\* C10: AuthProvider starts with isLoading = true, user = null, role = null
\* and isAuthenticated = false; once the listener has processed an auth-state
\* notification (a user or null) isLoading is false, and the listener sets
\* isLoading only once, to false, as its last call, after the user, role and
\* token update for that notification.
C10_LoadingUntilNotified ==
    /\ isLoading = TRUE /\ user = NULL /\ role = NULL
    /\ isAuthenticated(user) = FALSE
    /\ [][Runs("onAuthStateChanged") =>
            /\ ~isLoading' /\ last'.settled = "resolved"
            /\ calls'[1] = <<"setUser", last'.arg>>
            /\ LastCall(calls') = <<"setIsLoading", "false">>
            /\ \A i \in 1..(Len(calls') - 1) : calls'[i][1] # "setIsLoading"
         ]_vars

\* C10, witness: the listener processed a user with a token; the role is set,
\* the token stored, and setIsLoading(false) was the last call it made.
C10_Witness ==
    /\ last.op = "onAuthStateChanged" /\ last.arg \in Users
    /\ ~isLoading /\ user = last.arg /\ role = "user"
    /\ TOKEN_KEY \in DOMAIN store
    /\ HasCall(calls, <<"setRole", "user">>)
    /\ LastCall(calls) = <<"setIsLoading", "false">>

\* C11: clearError sets error to null from any state and leaves user, role,
\* isLoading and the stored token and expiry unchanged.
C11_ClearError ==
    [][Runs("clearError") =>
         /\ error' = NULL
         /\ user' = user /\ role' = role /\ isLoading' = isLoading
         /\ store' = store
         /\ calls' = << <<"setError", NULL>> >>
      ]_vars

\* C11, witness: clearError ran for a signed-in user with a role and a stored
\* token: no error is set, and user, role and the token are still there.
C11_Witness ==
    /\ last.op = "clearError" /\ HasCall(calls, <<"setError", NULL>>)
    /\ error = NULL /\ user # NULL /\ role = "admin" /\ isLoading = FALSE
    /\ TOKEN_KEY \in DOMAIN store /\ TOKEN_EXPIRY_KEY \in DOMAIN store

----------------------------------------------------------------------------
(* useRequireAuth as a state machine.  Every event is followed by a render *)
(* of the hook with the values then current, and by its effect when React  *)
(* runs it; the first render mounts the hook.  What useAuth() returns is   *)
(* the provider's user and isLoading, here changing as any provider may    *)
(* change them.                                                            *)

\* The provider's state, the store, the clock and the call log.
providerVars == <<user, role, isLoading, error, store, now, calls, last>>

\* The hook renders with these values and its effect follows; cause is the
\* event that made it render.
RequireAuthRenders(cause, u, loading, rtr, segs, rTo) ==
    LET h == useRequireAuth(effectDeps, replaceCalls, isAuthenticated(u), loading,
                            rtr, segs, rTo)
    IN  /\ renderCount < MaxRenders
        /\ renderCount' = renderCount + 1
        /\ renderCause' = cause
        /\ user' = u
        /\ isLoading' = loading
        /\ router' = rtr
        /\ segments' = segs
        /\ redirectTo' = rTo
        /\ effectDeps' = h.effectDeps
        /\ replaceCalls' = h.replaceCalls
        /\ UNCHANGED <<role, error, store, now, calls, last, roleVars,
                       walkthroughVars, themeVars, layoutVars, configVars,
                   consumerVars>>

\* The component renders again (or for the first time) with nothing changed.
Rerender ==
    /\ renderCount < MaxRenders
    /\ RequireAuthRenders("rerender", user, isLoading, router, segments, redirectTo)

\* useAuth() returns another user or loading state.
AuthContextChanged ==
    \E u \in Users \cup {NULL}, loading \in BOOLEAN :
        /\ <<u, loading>> # <<user, isLoading>>
        /\ RequireAuthRenders("auth", u, loading, router, segments, redirectTo)

\* useSegments() returns another array.
SegmentsChanged ==
    \E segs \in SegmentArrays \ {segments} :
        RequireAuthRenders("segments", user, isLoading, router, segs, redirectTo)

\* useRouter() returns another object.
RouterChanged ==
    \E rtr \in Routers \ {router} :
        RequireAuthRenders("router", user, isLoading, rtr, segments, redirectTo)

\* The caller passes another redirectTo.
RedirectToChanged ==
    \E rTo \in RedirectArgs \ {redirectTo} :
        RequireAuthRenders("redirectTo", user, isLoading, router, segments, rTo)

NextRequireAuth ==
    \/ Rerender
    \/ AuthContextChanged
    \/ SegmentsChanged
    \/ RouterChanged
    \/ RedirectToChanged

SpecRequireAuth == Init /\ [][NextRequireAuth]_vars

----------------------------------------------------------------------------
(* The claims about useRequireAuth: properties of the step in which the    *)
(* hook renders.                                                           *)

\* The hook renders in this step.
Rendered == renderCount' = renderCount + 1

\* The render is the first one: the hook mounts.
Mounts == Rendered /\ effectDeps = <<>>

\* router.replace is called in this step, once.
Redirects ==
    /\ Len(replaceCalls') = Len(replaceCalls) + 1
    /\ SubSeq(replaceCalls', 1, Len(replaceCalls)) = replaceCalls

\* The redirect made in this step.
TheRedirect == replaceCalls'[Len(replaceCalls')]

\* Auth state is settled and unauthenticated.
SettledOut(u, loading) == loading = FALSE /\ isAuthenticated(u) = FALSE

\* C12: useRequireAuth calls router.replace to '/login' only when auth state
\* is settled and unauthenticated (isLoading = false, isAuthenticated =
\* false): a render never redirects while isLoading is true or while
\* isAuthenticated is true; and it does redirect when the hook mounts in
\* that state and when the state moves to it from loading or from
\* authenticated.
C12_RedirectWhenSettledOut ==
    [][Rendered =>
         /\ replaceCalls' # replaceCalls =>
                /\ Redirects /\ TheRedirect.pathname = "/login"
                /\ SettledOut(user', isLoading')
         /\ (/\ SettledOut(user', isLoading')
             /\ Mounts \/ isLoading = TRUE \/ isAuthenticated(user)) => Redirects
      ]_vars

\* C12, witness: the hook mounted while loading without redirecting, then the
\* state settled as unauthenticated and the one redirect was made.
C12_Witness ==
    /\ renderCount = 2 /\ renderCause = "auth"
    /\ SettledOut(user, isLoading)
    /\ replaceCalls = <<LoginRedirect(<<"/", "dashboard">>)>>

\* The path of a list of route segments: '/' and the segments with '/'
\* between them.
PathOf(items) ==
    CASE items = <<>> -> <<"/">>
      [] items = <<"dashboard">> -> <<"/", "dashboard">>
      [] items = <<"profile", "settings">> -> <<"/", "profile", "/", "settings">>

\* C13, as stated: every redirect issued by useRequireAuth carries
\* params.returnTo equal to the redirectTo argument when one is given, and
\* otherwise equal to '/' followed by the current route segments joined with
\* '/', which is '/' for an empty segment list.
C13_AsStated ==
    [][(Rendered /\ replaceCalls' # replaceCalls) =>
         TheRedirect.params.returnTo =
             IF redirectTo'.given THEN redirectTo'.value
             ELSE PathOf(segments'.items)
      ]_vars

\* C13, amended: every redirect issued by useRequireAuth carries
\* params.returnTo equal to the redirectTo argument when one is given and is
\* not the empty string (it takes priority over the route segments), and
\* otherwise, for no argument or '', equal to '/' followed by the current
\* route segments joined with '/', which is '/' for an empty segment list.
C13_ReturnTo ==
    [][(Rendered /\ replaceCalls' # replaceCalls) =>
         TheRedirect.params.returnTo =
             IF redirectTo'.given /\ redirectTo'.value # <<>>
             THEN redirectTo'.value
             ELSE PathOf(segments'.items)
      ]_vars

\* C13, witness: redirects were made without redirectTo on the empty segment
\* list and on the route profile/settings, and then on that route with a
\* redirectTo given.
C13_Witness ==
    /\ Len(replaceCalls) = 3
    /\ replaceCalls[1] = LoginRedirect(<<"/">>)
    /\ replaceCalls[2] = LoginRedirect(<<"/", "profile", "/", "settings">>)
    /\ replaceCalls[3] = LoginRedirect(<<"/", "custom-path">>)
    /\ segments.items = <<"profile", "settings">>
    /\ redirectTo = Given(<<"/", "custom-path">>)

\* The hook renders again with the dependencies of its effect unchanged.
RerendersUnchanged ==
    /\ Rendered /\ effectDeps # <<>>
    /\ isAuthenticated(user') = isAuthenticated(user)
    /\ isLoading' = isLoading
    /\ router' = router
    /\ segments' = segments
    /\ redirectTo' = redirectTo

\* C14: useRequireAuth redirects only once per state change: re-rendering
\* the hook with unchanged isAuthenticated, isLoading, router, segments and
\* redirectTo issues no further router.replace call.
C14_OncePerChange ==
    [][RerendersUnchanged => replaceCalls' = replaceCalls]_vars

\* C14, witness: unauthenticated and settled, the hook redirected when it
\* mounted and has rendered again since with nothing changed: still one
\* router.replace call.
C14_Witness ==
    /\ renderCount >= 2 /\ renderCause = "rerender"
    /\ SettledOut(user, isLoading)
    /\ Len(replaceCalls) = 1

----------------------------------------------------------------------------
(* The role hooks as a state machine: the context role or an argument      *)
(* changes and the component renders again.                                *)

\* The component renders with these values.
RoleHooksRender(ctxRole, reqRole, rs) ==
    /\ role' = ctxRole
    /\ requiredRole' = reqRole
    /\ roles' = rs
    /\ roleChecks' = RoleHooks(ctxRole, reqRole, rs)
    /\ UNCHANGED <<user, isLoading, error, store, now, calls, last,
                   requireAuthVars, walkthroughVars, themeVars, layoutVars, configVars,
                   consumerVars>>

\* useAuth() returns another role.
RoleChanged ==
    \E r \in (UserRole \cup {NULL}) \ {role} :
        RoleHooksRender(r, requiredRole, roles)

\* The caller asks useRole for another role.
RequiredRoleChanged ==
    \E r \in UserRole \ {requiredRole} :
        RoleHooksRender(role, r, roles)

\* The caller passes useHasAnyRole another list.
RolesChanged ==
    \E rs \in RoleLists \ {roles} :
        RoleHooksRender(role, requiredRole, rs)

NextRole ==
    \/ RoleChanged
    \/ RequiredRoleChanged
    \/ RolesChanged

SpecRole == Init /\ [][NextRole]_vars

----------------------------------------------------------------------------
(* The claims about the role hooks: properties of what the hooks returned  *)
(* at the last render against the role the context holds now.              *)

\* The four single-role checks that returned true.
TrueChecks ==
    {h \in {"useIsAdmin", "useIsOrganizer", "useIsPremium", "useIsUser"} :
        roleChecks[h]}

\* C15: useRole(r) is true exactly when the context role equals r, so for
\* every non-null role exactly one of useIsAdmin, useIsOrganizer,
\* useIsPremium and useRole(USER) is true, and with a null role all four are
\* false; the results follow the role when it changes.
C15_UseRole ==
    /\ roleChecks.useRole = (role = requiredRole)
    /\ roleChecks.useIsAdmin = (role = "admin")
    /\ roleChecks.useIsOrganizer = (role = "organizer")
    /\ roleChecks.useIsPremium = (role = "premium_user")
    /\ roleChecks.useIsUser = (role = "user")
    /\ role # NULL => Cardinality(TrueChecks) = 1
    /\ role = NULL => TrueChecks = {}

\* C15, witness: the role is premium_user while useRole is asked for admin:
\* useIsPremium alone is true.
C15_Witness ==
    /\ role = "premium_user" /\ requiredRole = "admin"
    /\ roleChecks.useRole = FALSE
    /\ TrueChecks = {"useIsPremium"}

\* The role is one of the items of the list.
MemberOf(r, rs) ==
    CASE rs = <<>> -> FALSE
      [] Len(rs) = 1 -> r = rs[1]
      [] Len(rs) = 2 -> r = rs[1] \/ r = rs[2]
      [] OTHER -> r \in {rs[i] : i \in DOMAIN rs}

\* C16: useHasAnyRole(roles) is true exactly when the context role is
\* non-null and is a member of roles; in particular it is false for an empty
\* roles list and false for a null role whatever the list contains.
C16_UseHasAnyRole ==
    /\ roleChecks.useHasAnyRole = (role # NULL /\ MemberOf(role, roles))
    /\ roles = <<>> => roleChecks.useHasAnyRole = FALSE
    /\ role = NULL => roleChecks.useHasAnyRole = FALSE

\* C16, witness: the role is organizer and the list is [organizer, admin]:
\* useHasAnyRole is true.
C16_Witness ==
    /\ role = "organizer" /\ roles = <<"organizer", "admin">>
    /\ roleChecks.useHasAnyRole = TRUE

----------------------------------------------------------------------------
(* IntroWalkthrough as a state machine.  Presses and completions of        *)
(* animations interleave freely: a press is made on the last render and    *)
(* may come before an earlier animation has completed, and the running     *)
(* animations complete in any order.                                       *)

\* The component's state as a handler sees it.
CurWalkthrough == [currentScreen |-> currentScreen, animations |-> animations]

\* The handler or callback ended in w; the component renders.
WalkthroughCommit(w, event) ==
    /\ currentScreen' = w.currentScreen
    /\ animations' = w.animations
    /\ view' = IntroWalkthroughView(w.currentScreen)
    /\ lastEvent' = event
    /\ UNCHANGED <<providerVars, requireAuthVars, roleVars, themeVars, layoutVars, configVars,
                   consumerVars>>

\* The Next button is pressed.
PressNext ==
    /\ Len(animations) < MaxAnimations
    /\ WalkthroughCommit(handleNext(CurWalkthrough),
                         [kind |-> "press", by |-> "next",
                          from |-> currentScreen, index |-> currentScreen])

\* Progress dot `index` is pressed.
PressDot ==
    /\ Len(animations) < MaxAnimations
    /\ \E index \in ScreenIndices :
          WalkthroughCommit(goToScreen(CurWalkthrough, index),
                            [kind |-> "press", by |-> "dot",
                             from |-> currentScreen, index |-> index])

\* All but the k-th item.
Without(seq, k) == SubSeq(seq, 1, k - 1) \o SubSeq(seq, k + 1, Len(seq))

\* The callback of a Next press counting on from the screen shown when it
\* runs, as setCurrentScreen((screen) => screen + 1) would.
completed_fromShownScreen(w, k) ==
    [currentScreen |-> IF w.animations[k].by = "next"
                       THEN w.currentScreen + 1
                       ELSE w.animations[k].index,
     animations |-> Without(w.animations, k)]

\* The callback given to start() runs for the k-th running animation:
\* setCurrentScreen(currentScreen + 1) or setCurrentScreen(index), with the
\* currentScreen and index of the render that made the callback.
completed(w, k) ==
    [currentScreen |-> w.animations[k].index,
     animations |-> Without(w.animations, k)]

\* A running animation completes: its callback calls setCurrentScreen.
AnimationCompletes ==
    \E k \in 1..Len(animations) :
        LET a == animations[k]
        IN  WalkthroughCommit(completed(CurWalkthrough, k),
                              [kind |-> "completed", by |-> a.by,
                               from |-> a.from, index |-> a.index])

NextWalkthrough ==
    \/ PressNext
    \/ PressDot
    \/ AnimationCompletes

SpecWalkthrough == Init /\ [][NextWalkthrough]_vars

----------------------------------------------------------------------------
(* The claims about IntroWalkthrough.                                      *)

\* The step is a press of the Next button / of a progress dot.
PressesNext == lastEvent'.kind = "press" /\ lastEvent'.by = "next"
PressesDot == lastEvent'.kind = "press" /\ lastEvent'.by = "dot"

\* The step is the completion of an animation started by such a press.
Completes(by) == lastEvent'.kind = "completed" /\ lastEvent'.by = by

\* The animation a press starts on the current screen.
Slide(by, index) == [by |-> by, from |-> currentScreen, index |-> index]

\* C17: pressing the Next button on screen i < 2 moves to screen i + 1 once
\* the slide animation completes, and pressing the button on the last screen
\* (index 2) leaves the current screen unchanged: the walkthrough does not
\* navigate beyond the last screen.
C17_Next ==
    [][/\ (PressesNext /\ currentScreen < 2) =>
            /\ animations' = Append(animations, Slide("next", currentScreen + 1))
            /\ currentScreen' = currentScreen
       /\ (PressesNext /\ currentScreen = 2) =>
            /\ animations' = animations
            /\ currentScreen' = currentScreen /\ view' = view
       /\ Completes("next") =>
            /\ lastEvent'.from < 2
            /\ currentScreen' = lastEvent'.from + 1
            /\ view'.headline = screens[lastEvent'.from + 2].headline
       /\ currentScreen' <= 2
      ]_vars

\* C17, witness: Next was pressed on the second screen and its animation has
\* completed: the last screen is shown.
C17_Witness ==
    /\ lastEvent = [kind |-> "completed", by |-> "next", from |-> 1, index |-> 2]
    /\ currentScreen = 2
    /\ view.headline = "Chase the Leader. Or Be One."
    /\ view.buttonText = "Let's Go"

\* The dots marked selected at the last render.
SelectedDots == {index \in DOMAIN view.selected : view.selected[index]}

\* C18: pressing progress dot j while on a different screen moves to screen j
\* (forwards or backwards) once the animation completes, pressing the dot of
\* the current screen changes nothing, and in every state exactly one dot is
\* marked selected: the one whose index equals the current screen.
C18_Dots ==
    /\ [](SelectedDots = {currentScreen})
    /\ [][/\ (PressesDot /\ lastEvent'.index # currentScreen) =>
               /\ animations' = Append(animations, Slide("dot", lastEvent'.index))
               /\ currentScreen' = currentScreen
          /\ (PressesDot /\ lastEvent'.index = currentScreen) =>
               /\ animations' = animations
               /\ currentScreen' = currentScreen /\ view' = view
          /\ Completes("dot") =>
               /\ lastEvent'.index # lastEvent'.from
               /\ currentScreen' = lastEvent'.index
               /\ view'.headline = screens[lastEvent'.index + 1].headline
         ]_vars

\* C18, witness: the first dot was pressed on the last screen and the
\* animation has completed: the first screen is shown and its dot selected.
C18_Witness ==
    /\ lastEvent = [kind |-> "completed", by |-> "dot", from |-> 2, index |-> 0]
    /\ currentScreen = 0
    /\ SelectedDots = {0}
    /\ view.headline = "Compete with Friends. Stay Active."

\* C23: whatever the order of Next presses, dot presses and completions of
\* animations, currentScreen is one of 0, 1, 2, every running animation
\* leads to one of these screens, and the headline, the subtext and the
\* button text shown are those of screens[currentScreen].
C23_CurrentScreenInRange ==
    /\ currentScreen \in 0..2
    /\ \A k \in 1..Len(animations) : animations[k].index \in 0..2
    /\ view.headline = screens[currentScreen + 1].headline
    /\ view.subtext = screens[currentScreen + 1].subtext
    /\ view.buttonText = screens[currentScreen + 1].buttonText
    /\ "TypeError" \notin {view.headline, view.subtext, view.buttonText}

\* Next was pressed twice on the second screen before either animation had
\* completed; one has completed and shows the last screen, the other is
\* still running.
C23_PressedAgainBeforeCompletion ==
    /\ lastEvent = [kind |-> "completed", by |-> "next", from |-> 1, index |-> 2]
    /\ currentScreen = 2
    /\ \E k \in 1..Len(animations) :
          animations[k] = [by |-> "next", from |-> 1, index |-> 2]

----------------------------------------------------------------------------
(* useThemeColor as a state machine: the system scheme or an argument      *)
(* changes and the hook renders again.                                     *)

\* The hook renders with these values.
ThemeRender(system, ps, name) ==
    /\ colorScheme' = system
    /\ props' = ps
    /\ colorName' = name
    /\ themeColor' = useThemeColor(ps, name, system)
    /\ UNCHANGED <<providerVars, requireAuthVars, roleVars, walkthroughVars,
                   layoutVars, configVars,
                   consumerVars>>

\* The system colour scheme changes.
ColorSchemeChanged ==
    \E system \in SystemSchemes \ {colorScheme} :
        ThemeRender(system, props, colorName)

\* The caller passes other props.
PropsChanged ==
    \E ps \in ThemeProps \ {props} :
        ThemeRender(colorScheme, ps, colorName)

\* The caller asks for another colour name.
ColorNameChanged ==
    \E name \in ThemeColorName \ {colorName} :
        ThemeRender(colorScheme, props, name)

NextTheme ==
    \/ ColorSchemeChanged
    \/ PropsChanged
    \/ ColorNameChanged

SpecTheme == Init /\ [][NextTheme]_vars

----------------------------------------------------------------------------
(* The claims about useThemeColor: what the hook returned at the last      *)
(* render against the scheme and the arguments now.                        *)

\* The scheme in force: the system colour scheme, 'light' when unavailable.
Scheme == IF colorScheme = "dark" THEN "dark" ELSE "light"

OtherScheme == IF Scheme = "dark" THEN "light" ELSE "dark"

\* C19, as stated: useThemeColor(props, name) returns props[scheme] when that
\* prop is set for the current colour scheme and otherwise
\* Colors[scheme][name], where scheme is the system colour scheme defaulting
\* to 'light' when unavailable; a prop given only for the other scheme is
\* ignored, and the result follows the scheme when it changes.
C19_AsStated ==
    /\ props[Scheme].given => themeColor = props[Scheme].value
    /\ ~props[Scheme].given => themeColor = Colors[Scheme][colorName]

\* C19, amended: useThemeColor(props, name) returns props[scheme] when that
\* prop is set to a non-empty string for the current colour scheme and
\* otherwise (prop missing, undefined or '') Colors[scheme][name], where
\* scheme is the system colour scheme defaulting to 'light' when
\* unavailable; a prop given only for the other scheme is ignored, and the
\* result follows the scheme when it changes.
C19_ThemeColor ==
    /\ (props[Scheme].given /\ props[Scheme].value # <<>>) =>
           themeColor = props[Scheme].value
    /\ (~props[Scheme].given \/ props[Scheme].value = <<>>) =>
           themeColor = Colors[Scheme][colorName]
    /\ (~props[Scheme].given /\ props[OtherScheme].given) =>
           themeColor = Colors[Scheme][colorName]

\* C19, witness: the system scheme is unavailable and only a dark colour is
\* passed: the hook returned the light theme's background.
C19_Witness ==
    /\ colorScheme = NULL
    /\ props = [light |-> Undefined, dark |-> Given(<<"#00FF00">>)]
    /\ colorName = "background"
    /\ themeColor = <<"#F5F5F5">>

----------------------------------------------------------------------------
(* RootLayout as a state machine.  The module is evaluated once, before    *)
(* the component can render.  React runs the effect of a render after the  *)
(* render, and before the component renders again or unmounts.             *)

\* RootLayout renders with what useFonts() returns.
LayoutRenders(loaded) ==
    LET r == RootLayout(layoutDeps, loaded)
    IN  /\ moduleLoaded
        /\ ~pendingEffect.queued
        /\ layoutRenders < MaxLayoutRenders
        /\ layoutRenders' = layoutRenders + 1
        /\ fontsLoaded' = loaded
        /\ layout' = r.layout
        /\ layoutDeps' = r.layoutDeps
        /\ pendingEffect' = r.pendingEffect
        /\ UNCHANGED <<moduleLoaded, splashCalls>>
        /\ UNCHANGED <<providerVars, requireAuthVars, roleVars, walkthroughVars,
                       themeVars, configVars,
                   consumerVars>>

\* The module is evaluated: SplashScreen.preventAutoHideAsync().
LoadModule ==
    /\ ~moduleLoaded
    /\ moduleLoaded' = TRUE
    /\ splashCalls' = Append(splashCalls, "preventAutoHideAsync")
    /\ UNCHANGED <<fontsLoaded, layout, layoutDeps, pendingEffect, layoutRenders>>
    /\ UNCHANGED <<providerVars, requireAuthVars, roleVars, walkthroughVars,
                   themeVars, configVars,
                   consumerVars>>

\* The component mounts, or renders again with nothing changed.
RenderLayout ==
    /\ moduleLoaded
    /\ LayoutRenders(fontsLoaded)

\* The fonts finish loading: before the component is mounted, or while it is,
\* and then useFonts() makes it render again.
FontsLoaded ==
    /\ ~fontsLoaded
    /\ IF layout = "unmounted"
       THEN /\ fontsLoaded' = TRUE
            /\ UNCHANGED <<moduleLoaded, layout, layoutDeps, pendingEffect,
                           splashCalls, layoutRenders>>
            /\ UNCHANGED <<providerVars, requireAuthVars, roleVars,
                           walkthroughVars, themeVars, configVars,
                   consumerVars>>
       ELSE LayoutRenders(TRUE)

\* React runs the effect of the last render.
RunLayoutEffect ==
    /\ pendingEffect.queued
    /\ splashCalls' = layoutEffect(splashCalls, pendingEffect.loaded)
    /\ pendingEffect' = NoEffect
    /\ UNCHANGED <<moduleLoaded, fontsLoaded, layout, layoutDeps, layoutRenders>>
    /\ UNCHANGED <<providerVars, requireAuthVars, roleVars, walkthroughVars,
                   themeVars, configVars,
                   consumerVars>>

\* The component unmounts; a later render mounts it again.
UnmountLayout ==
    /\ layout # "unmounted"
    /\ ~pendingEffect.queued
    /\ layout' = "unmounted"
    /\ layoutDeps' = <<>>
    /\ UNCHANGED <<moduleLoaded, fontsLoaded, pendingEffect, splashCalls,
                   layoutRenders>>
    /\ UNCHANGED <<providerVars, requireAuthVars, roleVars, walkthroughVars,
                   themeVars, configVars,
                   consumerVars>>

NextLayout ==
    \/ LoadModule
    \/ RenderLayout
    \/ FontsLoaded
    \/ RunLayoutEffect
    \/ UnmountLayout

SpecLayout == Init /\ [][NextLayout]_vars

\* React does run the effect of a render that has been committed.
FairSpecLayout == SpecLayout /\ WF_vars(RunLayoutEffect)

----------------------------------------------------------------------------
(* The claims about RootLayout.                                            *)

\* How many times a SplashScreen function has been called.
SplashCallCount(name) ==
    Cardinality({i \in 1..Len(splashCalls) : splashCalls[i] = name})

HideAsyncCalled == SplashCallCount("hideAsync") > 0

\* C20: RootLayout renders nothing and never calls SplashScreen.hideAsync
\* while fonts are not loaded; once fonts are loaded it renders the themed
\* stack and hideAsync is eventually called;
\* SplashScreen.preventAutoHideAsync is called once at module load and not
\* again on re-renders.
C20_SplashScreen ==
    /\ [](fontsLoaded = FALSE =>
            /\ layout \in {"unmounted", "null"}
            /\ ~HideAsyncCalled)
    /\ []((fontsLoaded = TRUE /\ layout # "unmounted") => layout = "ThemedStack")
    /\ (fontsLoaded = TRUE /\ layout = "ThemedStack") ~> HideAsyncCalled
    /\ [](SplashCallCount("preventAutoHideAsync") = IF moduleLoaded THEN 1 ELSE 0)
    /\ [](moduleLoaded = TRUE => splashCalls[1] = "preventAutoHideAsync")

\* C20, witness: the layout rendered before the fonts were loaded and again
\* when they were: the themed stack is shown, and the calls on SplashScreen
\* are preventAutoHideAsync at module load and then hideAsync.
C20_Witness ==
    /\ layoutRenders >= 2 /\ fontsLoaded = TRUE
    /\ layout = "ThemedStack"
    /\ pendingEffect = NoEffect
    /\ splashCalls = <<"preventAutoHideAsync", "hideAsync">>

----------------------------------------------------------------------------
(* The Firebase configuration module: its evaluations.                     *)

\* Some other code has initialised the default app before the module is
\* evaluated.
OtherCodeInitializesApp ==
    /\ firebaseApps = <<>>
    /\ firebaseApps' = <<initializeApp(OtherOptions)>>
    /\ UNCHANGED <<extra, firebaseApp, auth, configError, configCalls,
                   configLoads>>
    /\ UNCHANGED <<providerVars, requireAuthVars, roleVars, walkthroughVars,
                   themeVars, layoutVars, consumerVars>>

\* The module is evaluated (at start, or again after a reload) with some
\* contents of extra; the apps the SDK has registered stay registered.
EvaluateConfig ==
    /\ configLoads < MaxLoads
    /\ \E ex \in Extras :
          LET m == configModule(ex, firebaseApps)
          IN  /\ extra' = ex
              /\ firebaseApps' = m.apps
              /\ firebaseApp' = m.firebaseApp
              /\ auth' = m.auth
              /\ configError' = m.error
              /\ configCalls' = m.calls
              /\ configLoads' = configLoads + 1
    /\ UNCHANGED <<providerVars, requireAuthVars, roleVars, walkthroughVars,
                   themeVars, layoutVars, consumerVars>>

NextConfig ==
    \/ OtherCodeInitializesApp
    \/ EvaluateConfig

SpecConfig == Init /\ [][NextConfig]_vars

----------------------------------------------------------------------------
(* The claims about the Firebase configuration.                            *)

\* The step is an evaluation of the module.
Evaluates == configLoads' # configLoads

\* The required keys whose entry of ex is missing or empty.
MissingOrEmpty(ex) ==
    {key \in ConfigKeys : ex[EnvVar[key]] = Undefined \/ ex[EnvVar[key]].value = <<>>}

\* The positions of the message that hold the name of a required key.
NamedAt(message) == {i \in 1..Len(message) : message[i] \in ConfigKeys}

\* The SDK functions the evaluation reached.
Reached(cs) == {cs[i] : i \in 1..Len(cs)}

\* C21: an evaluation of the module with a required key missing or empty
\* throws an error that names each such key once and no other key, and
\* reaches neither initializeApp nor getAuth; an evaluation with every key
\* present throws nothing, calls initializeApp with the configuration exactly
\* when no app is registered, takes the first registered app otherwise, and
\* gives getAuth that app.
C21_ConfigValidatedOnInitialization ==
    [][Evaluates =>
        IF MissingOrEmpty(extra') # {}
        THEN /\ configError'.threw
             /\ {configError'.message[i] : i \in NamedAt(configError'.message)}
                    = MissingOrEmpty(extra')
             /\ Cardinality(NamedAt(configError'.message))
                    = Cardinality(MissingOrEmpty(extra'))
             /\ Reached(configCalls') \cap {"initializeApp", "getAuth"} = {}
             /\ firebaseApps' = firebaseApps
             /\ firebaseApp' = <<>>
             /\ auth' = <<>>
        ELSE /\ ~configError'.threw
             /\ IF firebaseApps = <<>>
                THEN /\ "initializeApp" \in Reached(configCalls')
                     /\ firebaseApps' = <<initializeApp(firebaseConfig(extra'))>>
                     /\ firebaseApp' = firebaseApps'
                ELSE /\ "initializeApp" \notin Reached(configCalls')
                     /\ firebaseApps' = firebaseApps
                     /\ firebaseApp' = <<firebaseApps[1]>>
             /\ auth' = <<getAuth(firebaseApp'[1])>>]_vars

\* A second evaluation threw for a key that is '' and a key that is
\* undefined, after the first one had initialised the app.
C21_ThrewAfterInitialised ==
    /\ configLoads = 2
    /\ configError.threw
    /\ EmptyEntries(extra) # {}
    /\ \E v \in EnvVars : extra[v] = Undefined
    /\ firebaseApps = <<initializeApp([key \in ConfigKeys |-> Given(<<"value">>)])>>

----------------------------------------------------------------------------
(* A component that calls useAuthContext or useAuth: its renders.          *)

\* The states AuthProvider can hold: without a user there is no role.
ProviderStates ==
    {p \in [user : Users \cup {NULL}, role : UserRole \cup {NULL},
            isLoading : BOOLEAN,
            error : {createAuthError(e) : e \in FirebaseErrors} \cup {NULL}] :
        p.user = NULL => p.role = NULL}

\* The state AuthProvider holds now.
ProviderState ==
    [user |-> user, role |-> role, isLoading |-> isLoading, error |-> error]

\* The provider holds state p.
ProviderHolds(p) ==
    /\ user' = p.user
    /\ role' = p.role
    /\ isLoading' = p.isLoading
    /\ error' = p.error

\* The component renders, below a provider or not, and calls hook h.
ConsumerRenders(isProvided, h, p) ==
    /\ hookCalls < MaxHookCalls
    /\ ProviderHolds(p)
    /\ provided' = isProvided
    /\ hook' = h
    /\ hookResult' = callHook(h, useContext(isProvided, p.user, p.role,
                                            p.isLoading, p.error))
    /\ hookCalls' = hookCalls + 1
    /\ UNCHANGED <<store, now, calls, last, requireAuthVars, roleVars,
                   walkthroughVars, themeVars, layoutVars, configVars>>

\* The component renders where it is and calls one of the hooks.
CallHook ==
    \E h \in Hooks : ConsumerRenders(provided, h, ProviderState)

\* The component is rendered again somewhere else: below an AuthProvider
\* if it was not, outside every AuthProvider if it was below one.
MoveConsumer ==
    /\ TRUE
    /\ ConsumerRenders(~provided, hook, ProviderState)

\* The provider's state changes: a component below it renders again, one
\* outside does not.
ProviderStateChanged ==
    \E p \in ProviderStates \ {ProviderState} :
        IF provided
        THEN ConsumerRenders(TRUE, hook, p)
        ELSE /\ ProviderHolds(p)
             /\ UNCHANGED <<store, now, calls, last, requireAuthVars, roleVars,
                            walkthroughVars, themeVars, layoutVars, configVars,
                            consumerVars>>

NextConsumer ==
    \/ CallHook
    \/ MoveConsumer
    \/ ProviderStateChanged

SpecConsumer == Init /\ [][NextConsumer]_vars

----------------------------------------------------------------------------
(* The claims about useAuthContext and useAuth.                            *)

\* The step is a call of one of the hooks.
CallsHook == hookCalls' # hookCalls

\* C22: a call of useAuthContext or of useAuth from a component outside every
\* AuthProvider throws the error 'useAuthContext must be used within an
\* AuthProvider'; a call from a component below an AuthProvider throws
\* nothing and returns the state the provider holds at the call (user, role,
\* isLoading, error, and isAuthenticated for that user).
C22_ThrowsOutsideProvider ==
    [][CallsHook =>
        IF provided' = FALSE
        THEN /\ hookResult'.threw
             /\ hookResult'.message
                    = "useAuthContext must be used within an AuthProvider"
        ELSE /\ ~hookResult'.threw
             /\ hookResult'.context.defined
             /\ hookResult'.context.value
                    = [user |-> user', role |-> role', isLoading |-> isLoading',
                       error |-> error', isAuthenticated |-> user' # NULL]]_vars

\* useAuth has thrown in a component outside the provider, which holds a
\* signed-in admin.
C22_UseAuthThrew ==
    /\ hook = "useAuth"
    /\ provided = FALSE
    /\ hookResult.threw
    /\ hookCalls >= 2
    /\ user = "uidA"
    /\ role = "admin"

====
